---- MODULE Spec2Model ----
(***************************************************************************)
(* Change detection and event recording of the sports tracker:             *)
(* GameSyncService (syncAllSports / syncSport / processGame /              *)
(* handleNewGame / handleExistingGame), EventStore (saveEvent,             *)
(* getCurrentVersion) and GameRepository (findById, save), and the three   *)
(* sport adapters (fetchGames, convertToGame, mapStatus) with the Game and *)
(* Score constructors they call.                                           *)
(*                                                                         *)
(* Every await of the service is a step of its own, so that a second       *)
(* invocation of syncAllSports (the interval callback or syncOnce) can     *)
(* interleave exactly where the event loop lets it.                        *)
(***************************************************************************)
EXTENDS Integers, Sequences, FiniteSets, TLC

VARIABLES
  upstream,   \* what each sport API currently serves, already normalised to Game objects
  games,      \* the `games` collection: gameId -> snapshot document or NoGame
  events,     \* the `events` collection: aggregateId -> documents in insertion order
  run,        \* one record per invocation slot of syncAllSports (locals and position)
  lastCycle,  \* observation: what the last completed cycle fetched and whether it was clean
  changes,    \* number of upstream changes so far
  failures,   \* number of injected storage / fetch failures so far
  cycles,     \* number of cycles started so far
  http,       \* the last request answered by the GameController and its response
  polling,    \* GameSyncService's isRunning and intervalId, and the interval timers set
  stats       \* the locals of the getStats request being served, and its position

vars == <<upstream, games, events, run, lastCycle, changes, failures, cycles, http, polling,
          stats>>

----------------------------------------------------------------------------
(* Bounds of the model *)

MaxScore == 1
MaxChanges == 1
MaxFailures == 1
MaxCycles == 2
FurtherCycles == 2
MaxSets == 2
MaxPollingCycles == 3
MaxSetGames == 8

----------------------------------------------------------------------------
(* Domain values *)

GameStatusEnum == {"SCHEDULED", "LIVE", "FINISHED"}

SportType == {"SOCCER", "TENNIS", "HOCKEY"}

\* server.ts: const adapters = [soccerAdapter, tennisAdapter, hockeyAdapter]
adapters == <<"SOCCER", "TENNIS", "HOCKEY">>

\* The ids each API serves (soccer M<i>, tennis T<i>, hockey H<i>), in list order.
GamesOf(sport) ==
  CASE sport = "SOCCER" -> <<"M1", "M2">>
    [] sport = "TENNIS" -> <<"T1">>
    [] sport = "HOCKEY" -> <<"H1">>

GameIds == {"M1", "M2", "T1", "H1"}

SportOf(id) == CHOOSE s \in SportType : \E i \in 1..Len(GamesOf(s)) : GamesOf(s)[i] = id

Scores == 0..MaxScore

Times == {"0 min", "1 min"}

\* The mutable part of a Game entity.
GameData == [status : GameStatusEnum, score1 : Scores, score2 : Scores, currentTime : Times]

\* The participants' names the APIs give to the game (Team <i>A / Team <i>B,
\* Player <i>A / Player <i>B).
TeamsOf(id) ==
  CASE id = "M1" -> <<"Team 1A", "Team 1B">>
    [] id = "M2" -> <<"Team 2A", "Team 2B">>
    [] id = "T1" -> <<"Player 1A", "Player 1B">>
    [] id = "H1" -> <<"Team 1A", "Team 1B">>

\* new Game(id, sport, participants, score, status, currentTime, events)
Game(id, d) ==
  [gameId |-> id, sport |-> SportOf(id),
   team1 |-> TeamsOf(id)[1], team2 |-> TeamsOf(id)[2], status |-> d.status,
   score1 |-> d.score1, score2 |-> d.score2, currentTime |-> d.currentTime]

NoGame == [gameId |-> "null"]

\* An id the API does not list.
NotListed == [status |-> "-"]

Procs == {"timer", "manual"}

----------------------------------------------------------------------------
(* EventStore *)

NoName == "-"
NoStatus == "-"
NoScore == <<-1, -1>>
NoTime == "-"

\* An event document; the payload fields an event type does not carry are absent
\* (NoStatus, NoScore, NoTime).
EventDoc(type, id, version, payload) ==
  [eventType |-> type, aggregateId |-> id, version |-> version,
   team1 |-> payload.team1, team2 |-> payload.team2,
   status |-> payload.status,
   previousStatus |-> payload.previousStatus, newStatus |-> payload.newStatus,
   previousScore |-> payload.previousScore, newScore |-> payload.newScore,
   previousTime |-> payload.previousTime, newTime |-> payload.newTime]

EmptyPayload ==
  [team1 |-> NoName, team2 |-> NoName,
   status |-> NoStatus, previousStatus |-> NoStatus, newStatus |-> NoStatus,
   previousScore |-> NoScore, newScore |-> NoScore,
   previousTime |-> NoTime, newTime |-> NoTime]

Max(S) == CHOOSE x \in S : \A y \in S : y <= x

VersionsOf(log) == {log[i].version : i \in 1..Len(log)}

\* findOne({aggregateId}).sort({version: -1}) ; lastEvent ? lastEvent.version : 0
getCurrentVersion(log) ==
  IF Len(log) = 0 THEN 0 ELSE Max(VersionsOf(log))

\* Variant: the version counter skips a number.
nextVersionSkips(currentVersion) == currentVersion + 2

\* const nextVersion = currentVersion + 1
nextVersion(currentVersion) == currentVersion + 1

\* Variant: the collection has no unique index on (aggregateId, version).
NoUniqueIndex(log, version) == FALSE

\* The unique index {aggregateId: 1, version: 1}: an insert of a version the
\* aggregate already holds is a duplicate-key error.
DuplicateKey(log, version) == version \in VersionsOf(log)

\* Variant: the event is written with an upsert keyed by aggregateId, so the
\* aggregate's stored document is replaced.
insertEventUpsert(log, doc) == <<doc>>

\* saveEvent: await event.save() inserts one new document into `events`.
insertEvent(log, doc) == Append(log, doc)

\* countDocuments({aggregateId})
countEvents(log) == Len(log)

----------------------------------------------------------------------------
(* GameRepository *)

\* Variant: score2 is filled from the first score.
saveScoreTypo(game) ==
  [gameId |-> game.gameId, sport |-> game.sport,
   team1 |-> game.team1, team2 |-> game.team2,
   score1 |-> game.score1, score2 |-> game.score1,
   status |-> game.status, currentTime |-> game.currentTime,
   version |-> 0]

\* findOneAndUpdate({gameId}, {$set: gameData}, {upsert: true}): gameData names
\* every field of the document, version: 0 included.
save(game) ==
  [gameId |-> game.gameId, sport |-> game.sport,
   team1 |-> game.team1, team2 |-> game.team2,
   score1 |-> game.score1, score2 |-> game.score2,
   status |-> game.status, currentTime |-> game.currentTime,
   version |-> 0]

----------------------------------------------------------------------------
(* GameSyncService: the events a pass emits *)

GameCreated(game) ==
  [eventType |-> "GAME_CREATED",
   payload |-> [EmptyPayload EXCEPT !.team1 = game.team1, !.team2 = game.team2,
                                    !.status = game.status]]

GameStarted ==
  [eventType |-> "GAME_STARTED", payload |-> [EmptyPayload EXCEPT !.status = "LIVE"]]

ScoreUpdated(old1, old2, new1, new2) ==
  [eventType |-> "SCORE_UPDATED",
   payload |-> [EmptyPayload EXCEPT !.previousScore = <<old1, old2>>,
                                    !.newScore = <<new1, new2>>]]

\* Variant: the payload of STATUS_CHANGED carries the two statuses swapped.
StatusChangedSwapped(oldStatus, newStatus) ==
  [eventType |-> "STATUS_CHANGED",
   payload |-> [EmptyPayload EXCEPT !.previousStatus = newStatus, !.newStatus = oldStatus]]

StatusChanged(oldStatus, newStatus) ==
  [eventType |-> "STATUS_CHANGED",
   payload |-> [EmptyPayload EXCEPT !.previousStatus = oldStatus, !.newStatus = newStatus]]

TimeUpdated(oldTime, newTime) ==
  [eventType |-> "TIME_UPDATED",
   payload |-> [EmptyPayload EXCEPT !.previousTime = oldTime, !.newTime = newTime]]

isLive(status) == status = "LIVE"

\* Variant: only the first score decides whether SCORE_UPDATED is emitted.
handleNewGameScore1Only(game) ==
  <<GameCreated(game)>>
  \o (IF isLive(game.status) THEN <<GameStarted>> ELSE <<>>)
  \o (IF game.score1 > 0
      THEN <<ScoreUpdated(0, 0, game.score1, game.score2)>> ELSE <<>>)

\* handleNewGame: GAME_CREATED, then GAME_STARTED if live, then SCORE_UPDATED if
\* a score is above zero; the snapshot is saved afterwards in every case.
handleNewGame(game) ==
  <<GameCreated(game)>>
  \o (IF isLive(game.status) THEN <<GameStarted>> ELSE <<>>)
  \o (IF game.score1 > 0 \/ game.score2 > 0
      THEN <<ScoreUpdated(0, 0, game.score1, game.score2)>> ELSE <<>>)

\* Variant: the time check is not guarded by a comparison.
handleExistingGameAlwaysTime(newGame, existingGame) ==
  (IF newGame.status # existingGame.status
   THEN <<StatusChanged(existingGame.status, newGame.status)>> ELSE <<>>)
  \o (IF newGame.score1 # existingGame.score1 \/ newGame.score2 # existingGame.score2
      THEN <<ScoreUpdated(existingGame.score1, existingGame.score2,
                          newGame.score1, newGame.score2)>> ELSE <<>>)
  \o <<TimeUpdated(existingGame.currentTime, newGame.currentTime)>>

\* Variant: the score check runs before the status check.
handleExistingGameScoreFirst(newGame, existingGame) ==
  (IF newGame.score1 # existingGame.score1 \/ newGame.score2 # existingGame.score2
   THEN <<ScoreUpdated(existingGame.score1, existingGame.score2,
                       newGame.score1, newGame.score2)>> ELSE <<>>)
  \o (IF newGame.status # existingGame.status
      THEN <<StatusChanged(existingGame.status, newGame.status)>> ELSE <<>>)
  \o (IF newGame.currentTime # existingGame.currentTime
      THEN <<TimeUpdated(existingGame.currentTime, newGame.currentTime)>> ELSE <<>>)

\* Variant: a game that is FINISHED is never reopened and scores never go
\* down; such a difference is not recorded.
handleExistingGameForwardOnly(newGame, existingGame) ==
  (IF newGame.status # existingGame.status /\ existingGame.status # "FINISHED"
   THEN <<StatusChanged(existingGame.status, newGame.status)>> ELSE <<>>)
  \o (IF newGame.score1 > existingGame.score1 \/ newGame.score2 > existingGame.score2
      THEN <<ScoreUpdated(existingGame.score1, existingGame.score2,
                          newGame.score1, newGame.score2)>> ELSE <<>>)
  \o (IF newGame.currentTime # existingGame.currentTime
      THEN <<TimeUpdated(existingGame.currentTime, newGame.currentTime)>> ELSE <<>>)

\* Variant: the clock is not compared, so a pass over a game whose snapshot
\* differs in currentTime only records and writes nothing.
handleExistingGameNoTime(newGame, existingGame) ==
  (IF newGame.status # existingGame.status
   THEN <<StatusChanged(existingGame.status, newGame.status)>> ELSE <<>>)
  \o (IF newGame.score1 # existingGame.score1 \/ newGame.score2 # existingGame.score2
      THEN <<ScoreUpdated(existingGame.score1, existingGame.score2,
                          newGame.score1, newGame.score2)>> ELSE <<>>)

\* handleExistingGame: the three checks in order; hasChanges is set by each.
handleExistingGame(newGame, existingGame) ==
  (IF newGame.status # existingGame.status
   THEN <<StatusChanged(existingGame.status, newGame.status)>> ELSE <<>>)
  \o (IF newGame.score1 # existingGame.score1 \/ newGame.score2 # existingGame.score2
      THEN <<ScoreUpdated(existingGame.score1, existingGame.score2,
                          newGame.score1, newGame.score2)>> ELSE <<>>)
  \o (IF newGame.currentTime # existingGame.currentTime
      THEN <<TimeUpdated(existingGame.currentTime, newGame.currentTime)>> ELSE <<>>)

----------------------------------------------------------------------------
(* Adapters: what the sport APIs answer and how it becomes Game objects *)

\* A property the JSON lacks, read as a string.
Undefined == "undefined"

\* Status strings an API may send: the ones the three adapters know between
\* them, one that none knows, and a record without status.
RawStatuses ==
  {"LIVE", "SCHEDULED", "FINISHED", "IN_PROGRESS", "COMPLETED", "FINAL", "PAUSED", Undefined}

RawIds(id) == {id, "", " ", Undefined}

RawNames(name) == {name, Undefined}

RawScores == -1..MaxScore

\* At most one of the object-valued properties is absent from a record.
Missing(props) == {{}} \cup {{x} : x \in props}

\* interface SoccerMatch
SoccerMatches ==
  {m \in [matchId : RawIds("M1"), homeTeam : RawNames("Team 1A"),
          awayTeam : RawNames("Team 1B"), home : RawScores, away : RawScores,
          minute : {0, 1}, status : RawStatuses,
          missing : Missing({"score", "events"})] :
     "score" \in m.missing => m.home = 0 /\ m.away = 0}

\* The games a set of tennis can stand at, and the sets of a match so far.
SetGames == {0, 6, 7}

SetScores ==
  UNION {[1..n -> [p1 : SetGames, p2 : SetGames]] : n \in 0..MaxSets}

\* interface TennisGame
TennisGames ==
  {g \in [gameId : RawIds("T1"), player1 : RawNames("Player 1A"),
          player2 : RawNames("Player 1B"), setScore : SetScores,
          status : RawStatuses, missing : Missing({"setScore", "events"})] :
     "setScore" \in g.missing => g.setScore = <<>>}

\* interface HockeyGame; teams may hold fewer than two names.
HockeyGames ==
  {g \in [id : RawIds("H1"),
          teams : {<<"Team 1A", "Team 1B">>, <<"Team 1A">>, <<>>},
          team1 : RawScores, team2 : RawScores, period : {1, 2},
          status : RawStatuses,
          missing : Missing({"teams", "score", "events"})] :
     /\ "score" \in g.missing => g.team1 = 0 /\ g.team2 = 0
     /\ "teams" \in g.missing => g.teams = <<>>}

RawGames(sport) ==
  CASE sport = "SOCCER" -> SoccerMatches
    [] sport = "TENNIS" -> TennisGames
    [] sport = "HOCKEY" -> HockeyGames

\* A second match of the soccer list, as the simulator serves it.
SecondMatch ==
  [matchId |-> "M2", homeTeam |-> "Team 2A", awayTeam |-> "Team 2B", home |-> 0,
   away |-> 0, minute |-> 0, status |-> "SCHEDULED", missing |-> {}]

\* What axios.get comes back with: the request fails, the body lacks the list
\* (matches / games), or the body holds a list of records.
NoResponse == [kind |-> "none", list |-> <<>>]
RequestFailed == [kind |-> "error", list |-> <<>>]
NoList == [kind |-> "nolist", list |-> <<>>]

Responses(sport) ==
  {RequestFailed, NoList, [kind |-> "body", list |-> <<>>]}
  \cup {[kind |-> "body", list |-> <<g>>] : g \in RawGames(sport)}
  \cup (IF sport = "SOCCER"
        THEN {[kind |-> "body", list |-> <<SecondMatch, m>>] : m \in SoccerMatches}
        ELSE {})

\* Variant: the soccer adapter reads FINISHED as live.
mapStatusFinishedIsLive(sport, status) ==
  CASE sport = "SOCCER" ->
         (CASE status = "LIVE" -> "LIVE"
            [] status = "SCHEDULED" -> "SCHEDULED"
            [] status = "FINISHED" -> "LIVE"
            [] OTHER -> "SCHEDULED")
    [] sport = "TENNIS" ->
         (CASE status = "IN_PROGRESS" -> "LIVE"
            [] status = "COMPLETED" -> "FINISHED"
            [] status = "SCHEDULED" -> "SCHEDULED"
            [] OTHER -> "SCHEDULED")
    [] sport = "HOCKEY" ->
         (CASE status = "LIVE" -> "LIVE"
            [] status = "FINAL" -> "FINISHED"
            [] status = "SCHEDULED" -> "SCHEDULED"
            [] OTHER -> "SCHEDULED")

\* mapStatus of SoccerAdapter, TennisAdapter and HockeyAdapter: a switch over
\* the strings the adapter knows, with default: warn and GameStatus.scheduled().
mapStatus(sport, status) ==
  CASE sport = "SOCCER" ->
         (CASE status = "LIVE" -> "LIVE"
            [] status = "SCHEDULED" -> "SCHEDULED"
            [] status = "FINISHED" -> "FINISHED"
            [] OTHER -> "SCHEDULED")
    [] sport = "TENNIS" ->
         (CASE status = "IN_PROGRESS" -> "LIVE"
            [] status = "COMPLETED" -> "FINISHED"
            [] status = "SCHEDULED" -> "SCHEDULED"
            [] OTHER -> "SCHEDULED")
    [] sport = "HOCKEY" ->
         (CASE status = "LIVE" -> "LIVE"
            [] status = "FINAL" -> "FINISHED"
            [] status = "SCHEDULED" -> "SCHEDULED"
            [] OTHER -> "SCHEDULED")

\* Variant: the Score constructor accepts any pair of numbers.
ScoreNeverThrows(team1Score, team2Score) == FALSE

\* Score constructor: throws on a negative score.
ScoreThrows(team1Score, team2Score) == team1Score < 0 \/ team2Score < 0

\* String.prototype.trim on the ids above.
trim(s) == IF s = " " THEN "" ELSE s

\* Game constructor: throws if !gameId || gameId.trim() === '' or if
\* participants.length !== 2. The names and the sport are not looked at.
GameThrows(gameId, participants) ==
  \/ gameId = Undefined \/ gameId = "" \/ trim(gameId) = ""
  \/ Len(participants) # 2

\* Variant: a set counts as complete as soon as a player holds six games and
\* is ahead.
isSetCompleteAtSix(set) ==
  \/ set.p1 >= 6 /\ set.p1 > set.p2
  \/ set.p2 >= 6 /\ set.p2 > set.p1

\* TennisAdapter.isSetComplete
isSetComplete(set) ==
  LET p1 == set.p1
      p2 == set.p2
  IN \/ p1 >= 6 /\ p1 - p2 >= 2
     \/ p2 >= 6 /\ p2 - p1 >= 2
     \/ p1 = 7 /\ p2 = 6
     \/ p2 = 7 /\ p1 = 6
     \/ p1 >= 7 /\ p1 - p2 >= 2
     \/ p2 >= 7 /\ p2 - p1 >= 2

\* TennisAdapter.calculateSetsWon
calculateSetsWon(setScore) ==
  [player1 |-> Cardinality({i \in 1..Len(setScore) :
                  isSetComplete(setScore[i]) /\ setScore[i].p1 > setScore[i].p2}),
   player2 |-> Cardinality({i \in 1..Len(setScore) :
                  isSetComplete(setScore[i]) /\ setScore[i].p2 > setScore[i].p1})]

\* TennisAdapter.formatCurrentTime
formatCurrentTime(setScore) ==
  IF Len(setScore) = 0 THEN "Starting"
  ELSE LET setsWon == calculateSetsWon(setScore)
           currentSet == setScore[Len(setScore)]
           setNumber == Len(setScore)
           sets == "Sets: " \o ToString(setsWon.player1) \o "-" \o ToString(setsWon.player2)
           set == "Set " \o ToString(setNumber) \o ": " \o ToString(currentSet.p1)
                    \o "-" \o ToString(currentSet.p2)
       IN IF isSetComplete(currentSet) THEN sets
          ELSE IF Len(setScore) > 1 THEN sets \o ", " \o set
          ELSE set

\* An element of game.teams, undefined beyond the array's length.
At(arr, i) == IF i <= Len(arr) THEN arr[i] ELSE Undefined

\* convertToGame throws: a TypeError on a missing object, or the Score or
\* Game constructor.
convertThrows(sport, raw) ==
  CASE sport = "SOCCER" ->
         \/ raw.missing # {}
         \/ ScoreThrows(raw.home, raw.away)
         \/ GameThrows(raw.matchId, <<raw.homeTeam, raw.awayTeam>>)
    [] sport = "TENNIS" ->
         \/ raw.missing # {}
         \/ ScoreThrows(calculateSetsWon(raw.setScore).player1,
                        calculateSetsWon(raw.setScore).player2)
         \/ GameThrows(raw.gameId, <<raw.player1, raw.player2>>)
    [] sport = "HOCKEY" ->
         \/ raw.missing # {}
         \/ ScoreThrows(raw.team1, raw.team2)
         \/ GameThrows(raw.id, <<At(raw.teams, 1), At(raw.teams, 2)>>)

\* convertToGame of the three adapters, when it does not throw.
convertToGame(sport, raw) ==
  CASE sport = "SOCCER" ->
         [gameId |-> raw.matchId, sport |-> "SOCCER",
          team1 |-> raw.homeTeam, team2 |-> raw.awayTeam,
          status |-> mapStatus("SOCCER", raw.status),
          score1 |-> raw.home, score2 |-> raw.away,
          currentTime |-> ToString(raw.minute) \o " min"]
    [] sport = "TENNIS" ->
         [gameId |-> raw.gameId, sport |-> "TENNIS",
          team1 |-> raw.player1, team2 |-> raw.player2,
          status |-> mapStatus("TENNIS", raw.status),
          score1 |-> calculateSetsWon(raw.setScore).player1,
          score2 |-> calculateSetsWon(raw.setScore).player2,
          currentTime |-> formatCurrentTime(raw.setScore)]
    [] sport = "HOCKEY" ->
         [gameId |-> raw.id, sport |-> "HOCKEY",
          team1 |-> At(raw.teams, 1), team2 |-> At(raw.teams, 2),
          status |-> mapStatus("HOCKEY", raw.status),
          score1 |-> raw.team1, score2 |-> raw.team2,
          currentTime |-> "Period " \o ToString(raw.period)]

\* What fetchGames hands to syncSport when it rejects instead of returning.
Thrown == <<[thrown |-> TRUE]>>

\* The try block of fetchGames fails: the request, the read of the list, or
\* the conversion of one of its records.
fetchFails(sport, response) ==
  \/ response.kind # "body"
  \/ \E i \in 1..Len(response.list) : convertThrows(sport, response.list[i])

\* Variant: fetchGames has no catch; the error reaches syncSport.
fetchGamesNoCatch(sport, response) ==
  IF fetchFails(sport, response) THEN Thrown
  ELSE [i \in 1..Len(response.list) |-> convertToGame(sport, response.list[i])]

\* fetchGames: the whole body is inside try; catch logs and returns [].
fetchGames(sport, response) ==
  IF fetchFails(sport, response) THEN <<>>
  ELSE [i \in 1..Len(response.list) |-> convertToGame(sport, response.list[i])]

----------------------------------------------------------------------------
(* State *)

NoFetch == [a \in 1..Len(adapters) |-> "none"]

IdleRun ==
  [pc |-> "idle",
   adapter |-> 0,            \* index of the adapter in the for loop of syncAllSports
   fetched |-> <<>>,         \* games returned by adapter.fetchGames()
   idx |-> 0,                \* index of the game in the for loop of syncSport
   game |-> NoGame,          \* processGame's game
   existingGame |-> NoGame,  \* result of findById
   todo |-> <<>>,            \* the saveEvent calls still ahead in the pass
   hasChanges |-> FALSE,     \* whether the pass ends with gameRepository.save
   currentVersion |-> 0,     \* saveEvent's currentVersion
   \* observations of the pass in progress
   base |-> 0,               \* number of events of the game when the pass began
   emitted |-> <<>>,         \* event documents the pass appended
   wrote |-> FALSE,          \* the pass wrote the snapshot
   error |-> "none",         \* what the pass's catch block caught
   \* observations of the cycle in progress
   outcome |-> NoFetch,      \* per adapter: none | ok | empty | throw
   got |-> [a \in 1..Len(adapters) |-> <<>>],  \* per adapter: the list fetched
   response |-> [a \in 1..Len(adapters) |-> NoResponse],  \* per adapter: what axios.get gave
   processed |-> {},         \* ids handed to processGame
   failedAt |-> {},          \* ids whose pass threw
   appends |-> 0,            \* events appended by the cycle
   writes |-> 0]             \* snapshot writes by the cycle

InitData == [status |-> "SCHEDULED", score1 |-> 0, score2 |-> 0, currentTime |-> "0 min"]

NoCycle == [got |-> [a \in 1..Len(adapters) |-> <<>>], outcome |-> NoFetch, clean |-> FALSE]

\* No request has been answered yet.
NoExchange == [endpoint |-> "none", param |-> "", fault |-> [at |-> 0, content |-> ""],
               response |-> [status |-> 0, success |-> FALSE, error |-> "", data |-> <<>>]]

\* GameSyncService after construction: isRunning = false, intervalId undefined (0).
\* `timers` are the interval timers set and not cleared, `created` counts the
\* timers ever set, `initial` holds the invocations of syncAllSports that a
\* startPolling call is awaiting, `ticking` those an interval tick started,
\* `lastCall` is the last call of startPolling / stopPolling, and `ticked` tells
\* whether a tick has started a cycle since that call.
NotPolling == [isRunning |-> FALSE, intervalId |-> 0, timers |-> {}, created |-> 0,
               initial |-> {}, ticking |-> {}, lastCall |-> "none", ticked |-> FALSE]

\* No getStats request is being served.
NoStats == [pc |-> "idle", fault |-> [at |-> 0, content |-> ""], totalGames |-> 0,
            byStatus |-> [s \in {} |-> 0], allGames |-> <<>>, idx |-> 0,
            totalEvents |-> 0]

InitStores ==
  /\ http = NoExchange
  /\ stats = NoStats
  /\ polling = NotPolling
  /\ games = [id \in GameIds |-> NoGame]
  /\ events = [id \in GameIds |-> <<>>]
  /\ run = [p \in Procs |-> IdleRun]
  /\ lastCycle = NoCycle
  /\ changes = 0
  /\ failures = 0
  /\ cycles = 0

\* The soccer and the tennis API list their games; the hockey API lists none.
Init ==
  /\ upstream = [id \in GameIds |-> IF id = "H1" THEN NotListed ELSE InitData]
  /\ InitStores

\* The service starts while the soccer API serves one game in any state.
InitTransitions ==
  /\ upstream \in {u \in [GameIds -> GameData \cup {NotListed}] :
                     u["M1"] # NotListed /\ \A id \in GameIds \ {"M1"} : u[id] = NotListed}
  /\ InitStores

\* Only the soccer API lists a game; two invocations of syncAllSports meet on it.
InitOverlap ==
  /\ upstream = [id \in GameIds |-> IF id = "M1" THEN InitData ELSE NotListed]
  /\ InitStores

----------------------------------------------------------------------------
(* GameSyncService: control flow *)

Sport(r) == adapters[r.adapter]

\* The for loop of syncAllSports moves to the next adapter, or the cycle completes.
NextAdapter(r) ==
  IF r.adapter < Len(adapters)
  THEN [r EXCEPT !.pc = "fetch", !.adapter = r.adapter + 1, !.fetched = <<>>, !.idx = 0]
  ELSE [r EXCEPT !.pc = "done", !.fetched = <<>>, !.idx = 0]

\* syncSport calls processGame(game) for the i-th fetched game.
BeginGame(r, i) ==
  [r EXCEPT !.pc = "find", !.idx = i, !.game = r.fetched[i],
            !.existingGame = NoGame, !.todo = <<>>, !.hasChanges = FALSE,
            !.currentVersion = 0, !.base = 0, !.emitted = <<>>, !.wrote = FALSE,
            !.error = "none",
            !.processed = @ \cup {r.fetched[i].gameId}]

\* The for loop of syncSport after processGame returned.
NextGame(r) ==
  IF r.idx < Len(r.fetched) THEN BeginGame(r, r.idx + 1) ELSE NextAdapter(r)

\* syncSport after fetchGames returned `list`.
Fetched(r, list, how) ==
  LET r1 == [r EXCEPT !.fetched = list, !.outcome[r.adapter] = how, !.got[r.adapter] = list]
  IN IF Len(list) > 0 THEN BeginGame(r1, 1) ELSE NextAdapter(r1)

\* Variant: syncAllSports has no try/catch around syncSport; the cycle ends.
catchSyncSportAborts(r) ==
  [r EXCEPT !.pc = "done", !.outcome[r.adapter] = "throw", !.fetched = <<>>, !.idx = 0]

\* Variant: the catch of syncAllSports rethrows; syncAllSports rejects.
catchSyncSportRethrows(r) ==
  [r EXCEPT !.pc = "rejected", !.outcome[r.adapter] = "throw", !.fetched = <<>>, !.idx = 0]

\* fetchGames threw: syncSport logs and rethrows, the catch of syncAllSports logs
\* and the for loop goes on with the next adapter.
catchSyncSport(r) ==
  NextAdapter([r EXCEPT !.outcome[r.adapter] = "throw"])

\* Variant: processGame rethrows; the error ends syncSport's loop and the
\* catch of syncAllSports goes on with the next adapter.
catchProcessGameRethrows(r, err) ==
  NextAdapter([r EXCEPT !.error = err, !.failedAt = @ \cup {r.game.gameId}])

\* Variant: the error path never returns to syncSport's loop.
catchProcessGameHangs(r, err) ==
  [r EXCEPT !.pc = "hung", !.error = err, !.failedAt = @ \cup {r.game.gameId}]

\* The catch block of processGame: the error is logged and processGame returns.
catchProcessGame(r, err) ==
  [r EXCEPT !.pc = "passdone", !.error = err, !.failedAt = @ \cup {r.game.gameId}]

\* Variant: the snapshot is saved as soon as the pass knows it has changes,
\* before its events are appended.
AfterSaveEventSnapshotFirst(r) ==
  IF r.hasChanges THEN [r EXCEPT !.pc = "save"]
  ELSE IF Len(r.todo) > 0 THEN [r EXCEPT !.pc = "getver"]
  ELSE [r EXCEPT !.pc = "passdone"]

\* After a saveEvent returned: the next saveEvent of the pass, or the snapshot save.
AfterSaveEvent(r) ==
  IF Len(r.todo) > 0 THEN [r EXCEPT !.pc = "getver"]
  ELSE IF r.hasChanges THEN [r EXCEPT !.pc = "save"]
  ELSE [r EXCEPT !.pc = "passdone"]

----------------------------------------------------------------------------
(* Actions *)

\* The sport APIs change what they serve, in any direction. The service reads
\* upstream only in fetchGames, so a change is taken when a fetch of that sport
\* is about to happen: a change at any other moment is first seen there.
UpstreamChange ==
  /\ changes < MaxChanges
  /\ \E id \in GameIds : \E d \in GameData \ {upstream[id]} :
       /\ upstream[id] # NotListed
       /\ \E p \in Procs : run[p].pc = "fetch" /\ adapters[run[p].adapter] = SportOf(id)
       /\ upstream' = [upstream EXCEPT ![id] = d]
  /\ changes' = changes + 1
  /\ UNCHANGED <<http, stats, polling, games, events, run, lastCycle, failures, cycles>>

\* syncAllSports() is entered (startPolling's first sync, an interval tick, syncOnce).
StartCycle(p) ==
  /\ run[p].pc = "idle"
  /\ cycles < MaxCycles
  /\ cycles' = cycles + 1
  /\ run' = [run EXCEPT ![p] = [IdleRun EXCEPT !.pc = "fetch", !.adapter = 1]]
  /\ UNCHANGED <<http, stats, polling, upstream, games, events, lastCycle, changes, failures>>

\* adapter.fetchGames() returns the converted games.
FetchGames(p) ==
  /\ run[p].pc = "fetch"
  /\ LET Listed(id) == upstream[id] # NotListed
         ids == SelectSeq(GamesOf(Sport(run[p])), Listed)
         list == [i \in 1..Len(ids) |-> Game(ids[i], upstream[ids[i]])]
     IN run' = [run EXCEPT ![p] = Fetched(run[p], list, "ok")]
  /\ UNCHANGED <<http, stats, polling, upstream, games, events, lastCycle, changes, failures, cycles>>

\* The request failed: the adapter's own catch returns [].
FetchGamesEmpty(p) ==
  /\ run[p].pc = "fetch"
  /\ failures < MaxFailures
  /\ failures' = failures + 1
  /\ run' = [run EXCEPT ![p] = Fetched(run[p], <<>>, "empty")]
  /\ UNCHANGED <<http, stats, polling, upstream, games, events, lastCycle, changes, cycles>>

\* An ISportAdapter whose fetchGames rejects.
FetchGamesThrows(p) ==
  /\ run[p].pc = "fetch"
  /\ failures < MaxFailures
  /\ failures' = failures + 1
  /\ run' = [run EXCEPT ![p] = catchSyncSport(run[p])]
  /\ UNCHANGED <<http, stats, polling, upstream, games, events, lastCycle, changes, cycles>>

\* processGame: existingGame = await gameRepository.findById(gameId), then the
\* synchronous part of handleNewGame / handleExistingGame up to its first await.
FindById(p) ==
  /\ run[p].pc = "find"
  /\ LET r == run[p]
         id == r.game.gameId
         existingGame == games[id]
         plan == IF existingGame = NoGame THEN handleNewGame(r.game)
                 ELSE handleExistingGame(r.game, existingGame)
         r1 == [r EXCEPT !.existingGame = existingGame, !.todo = plan,
                         !.hasChanges = (existingGame = NoGame) \/ Len(plan) > 0,
                         !.base = Len(events[id])]
     IN run' = [run EXCEPT ![p] = AfterSaveEvent(r1)]
  /\ UNCHANGED <<http, stats, polling, upstream, games, events, lastCycle, changes, failures, cycles>>

\* saveEvent, step 1: currentVersion = await getCurrentVersion(aggregateId).
GetCurrentVersion(p) ==
  /\ run[p].pc = "getver"
  /\ run' = [run EXCEPT ![p] = [@ EXCEPT !.pc = "insert",
                 !.currentVersion = getCurrentVersion(events[run[p].game.gameId])]]
  /\ UNCHANGED <<http, stats, polling, upstream, games, events, lastCycle, changes, failures, cycles>>

\* saveEvent, step 3: await event.save(). The unique index rejects a version
\* the aggregate already holds; saveEvent rethrows and processGame catches.
SaveEvent(p) ==
  /\ run[p].pc = "insert"
  /\ LET r == run[p]
         id == r.game.gameId
         version == nextVersion(r.currentVersion)
         doc == EventDoc(Head(r.todo).eventType, id, version, Head(r.todo).payload)
     IN IF DuplicateKey(events[id], version)
        THEN /\ run' = [run EXCEPT ![p] = catchProcessGame(r, "conflict")]
             /\ UNCHANGED events
        ELSE /\ events' = [events EXCEPT ![id] = insertEvent(@, doc)]
             /\ run' = [run EXCEPT ![p] =
                          AfterSaveEvent([r EXCEPT !.todo = Tail(@),
                                                   !.emitted = Append(@, doc),
                                                   !.appends = @ + 1])]
  /\ UNCHANGED <<http, stats, polling, upstream, games, lastCycle, changes, failures, cycles>>

\* GameSchema: score1 and score2 have min: 0, and the upsert of
\* GameRepository.save runs the validators on its $set.
minValidatorFails(game) == game.score1 < 0 \/ game.score2 < 0

\* handleNewGame / handleExistingGame: await gameRepository.save(game).
SaveGame(p) ==
  /\ run[p].pc = "save"
  /\ ~minValidatorFails(run[p].game)
  /\ games' = [games EXCEPT ![run[p].game.gameId] = save(run[p].game)]
  /\ run' = [run EXCEPT ![p] = [@ EXCEPT !.pc = "passdone", !.wrote = TRUE,
                                         !.writes = @ + 1]]
  /\ UNCHANGED <<http, stats, polling, upstream, events, lastCycle, changes, failures, cycles>>

\* Variant: a rejected gameRepository.save has written the document all the same.
StorageErrorAfterWrite(p) ==
  /\ run[p].pc \in {"find", "getver", "insert", "save"}
  /\ failures < MaxFailures
  /\ failures' = failures + 1
  /\ games' = IF run[p].pc = "save"
              THEN [games EXCEPT ![run[p].game.gameId] = save(run[p].game)]
              ELSE games
  /\ run' = [run EXCEPT ![p] = catchProcessGame(run[p], run[p].pc)]
  /\ UNCHANGED <<http, stats, polling, upstream, events, lastCycle, changes, cycles>>

\* A storage operation rejects (findById, getCurrentVersion, event.save or
\* gameRepository.save): nothing is written, processGame's catch takes over.
StorageError(p) ==
  /\ run[p].pc \in {"find", "getver", "insert", "save"}
  /\ failures < MaxFailures
  /\ failures' = failures + 1
  /\ run' = [run EXCEPT ![p] = catchProcessGame(run[p], run[p].pc)]
  /\ UNCHANGED <<http, stats, polling, upstream, games, events, lastCycle, changes, cycles>>

\* processGame returned; syncSport's loop continues.
ProcessGameReturns(p) ==
  /\ run[p].pc = "passdone"
  /\ run' = [run EXCEPT ![p] = NextGame(run[p])]
  /\ UNCHANGED <<http, stats, polling, upstream, games, events, lastCycle, changes, failures, cycles>>

\* syncAllSports logs "Sync cycle completed" and returns.
EndCycle(p) ==
  /\ run[p].pc = "done"
  /\ lastCycle' = [got |-> run[p].got, outcome |-> run[p].outcome,
                   clean |-> run[p].failedAt = {}]
  /\ run' = [run EXCEPT ![p] = IdleRun]
  /\ UNCHANGED <<http, stats, polling, upstream, games, events, changes, failures, cycles>>

Step(p) ==
  \/ StartCycle(p)
  \/ FetchGames(p)
  \/ FetchGamesEmpty(p)
  \/ FetchGamesThrows(p)
  \/ FindById(p)
  \/ GetCurrentVersion(p)
  \/ SaveEvent(p)
  \/ SaveGame(p)
  \/ StorageError(p)
  \/ ProcessGameReturns(p)
  \/ EndCycle(p)

\* Cycles follow one another: only the polling timer runs syncAllSports.
Next == UpstreamChange \/ Step("timer")

Spec == Init /\ [][Next]_vars

\* Cycles follow one another over one game that starts in any state.
SpecTransitions == InitTransitions /\ [][Next]_vars

\* Cycles overlap: an interval tick or syncOnce enters syncAllSports while an
\* earlier invocation is still awaiting.
NextOverlap == UpstreamChange \/ \E p \in Procs : Step(p)

SpecOverlap == InitOverlap /\ [][NextOverlap]_vars

\* No API has answered yet; whatever an API answers is drawn at the request.
InitAdapters ==
  /\ upstream = [id \in GameIds |-> NotListed]
  /\ InitStores

\* fetchGames: await axios.get(...). The API is down, or it answers with any
\* body, well-formed or not.
ReceiveResponse(p) ==
  /\ run[p].pc = "fetch"
  /\ \/ /\ changes' = changes
        /\ run' = [run EXCEPT ![p] = [@ EXCEPT !.pc = "convert",
                                               !.response[run[p].adapter] = RequestFailed]]
     \/ /\ changes < MaxChanges
        /\ changes' = changes + 1
        /\ \E response \in Responses(Sport(run[p])) \ {RequestFailed} :
             run' = [run EXCEPT ![p] = [@ EXCEPT !.pc = "convert",
                                                !.response[run[p].adapter] = response]]
  /\ UNCHANGED <<http, stats, polling, upstream, games, events, lastCycle, failures, cycles>>

\* fetchGames: the list is converted and returned to syncSport.
Convert(p) ==
  /\ run[p].pc = "convert"
  /\ LET r == run[p]
         response == r.response[r.adapter]
         list == fetchGames(Sport(r), response)
     IN run' = [run EXCEPT ![p] =
                  IF list = Thrown THEN catchSyncSport(r)
                  ELSE Fetched(r, list, IF fetchFails(Sport(r), response)
                                        THEN "empty" ELSE "ok")]
  /\ UNCHANGED <<http, stats, polling, upstream, games, events, lastCycle, changes, failures, cycles>>

\* gameRepository.save of a game without a participant's name: team1 and team2
\* are required by GameSchema and the upsert runs validators. Whether the
\* update validators see an undefined $set value depends on the Mongoose
\* release, so the write may be rejected (here) or stored (SaveGame).
SaveGameInvalid(p) ==
  /\ run[p].pc = "save"
  /\ \/ Undefined \in {run[p].game.team1, run[p].game.team2}
     \/ minValidatorFails(run[p].game)
  /\ run' = [run EXCEPT ![p] = catchProcessGame(run[p], "validation")]
  /\ UNCHANGED <<http, stats, polling, upstream, games, events, lastCycle, changes, failures, cycles>>

\* One invocation at a time, storage working, the APIs answering anything.
NextAdapters ==
  \/ StartCycle("timer")
  \/ ReceiveResponse("timer")
  \/ Convert("timer")
  \/ FetchGamesThrows("timer")
  \/ FindById("timer")
  \/ GetCurrentVersion("timer")
  \/ SaveEvent("timer")
  \/ SaveGame("timer")
  \/ SaveGameInvalid("timer")
  \/ ProcessGameReturns("timer")
  \/ EndCycle("timer")

SpecAdapters == InitAdapters /\ [][NextAdapters]_vars

\* Well-formed answers in which an id comes with other names than before, or
\* from another API: the soccer API serves M1 under either of two home team
\* names, and the tennis API may serve a game under the id M1 as well.
RenamedResponses(sport) ==
  {RequestFailed}
  \cup (IF sport = "SOCCER"
        THEN {[kind |-> "body", list |-> <<m>>] :
                m \in [matchId : {"M1"}, homeTeam : {"Team 1A", "Team 9A"},
                       awayTeam : {"Team 1B"}, home : Scores, away : {0},
                       minute : {0, 1}, status : {"SCHEDULED", "LIVE"},
                       missing : {{}}]}
        ELSE IF sport = "TENNIS"
        THEN {[kind |-> "body",
               list |-> <<[gameId |-> "M1", player1 |-> "Player 1A",
                           player2 |-> "Player 1B", setScore |-> <<>>,
                           status |-> "SCHEDULED", missing |-> {}]>>]}
        ELSE {})

\* fetchGames: await axios.get(...) answers with one of the responses above.
ReceiveRenamed(p) ==
  /\ run[p].pc = "fetch"
  /\ \E response \in RenamedResponses(Sport(run[p])) :
       run' = [run EXCEPT ![p] = [@ EXCEPT !.pc = "convert",
                                          !.response[run[p].adapter] = response]]
  /\ UNCHANGED <<http, stats, polling, upstream, games, events, lastCycle, changes, failures, cycles>>

\* One invocation at a time, storage working, names and sources varying.
NextRenames ==
  \/ StartCycle("timer")
  \/ ReceiveRenamed("timer")
  \/ Convert("timer")
  \/ FindById("timer")
  \/ GetCurrentVersion("timer")
  \/ SaveEvent("timer")
  \/ SaveGame("timer")
  \/ ProcessGameReturns("timer")
  \/ EndCycle("timer")

SpecRenames == InitAdapters /\ [][NextRenames]_vars

\* An interval tick that finds no invocation of syncAllSports in flight, after
\* the overlapping invocations above have all returned.
StartFurtherCycle(p) ==
  /\ \A q \in Procs : run[q].pc = "idle"
  /\ cycles >= MaxCycles
  /\ cycles < MaxCycles + FurtherCycles
  /\ cycles' = cycles + 1
  /\ run' = [run EXCEPT ![p] = [IdleRun EXCEPT !.pc = "fetch", !.adapter = 1]]
  /\ UNCHANGED <<http, stats, polling, upstream, games, events, lastCycle, changes, failures>>

\* Overlapping cycles first, then cycles that run one after the other.
NextConverge ==
  \/ UpstreamChange
  \/ \E p \in Procs : Step(p)
  \/ StartFurtherCycle("timer")

SpecConverge == InitOverlap /\ [][NextConverge]_vars

----------------------------------------------------------------------------
(* Properties *)

Timer == run["timer"]

\* The snapshot document holds exactly the mutable state of the fetched game.
SnapshotHolds(doc, game) ==
  /\ doc # NoGame
  /\ doc.status = game.status
  /\ doc.score1 = game.score1
  /\ doc.score2 = game.score2
  /\ doc.currentTime = game.currentTime

\* Every game of every list the cycle fetched.
FetchedGames(r) ==
  UNION {{r.got[a][i] : i \in 1..Len(r.got[a])} : a \in 1..Len(adapters)}

\* C1: in every reachable state, overlapping cycles and rejected appends
\* included, the events of each aggregateId carry the versions 1..N, no gap and
\* no duplicate (the k-th stored event of an aggregate has version k).
C1_VersionsGapless ==
  \A id \in GameIds : \A i \in 1..Len(events[id]) : events[id][i].version = i

\* An append was rejected as a duplicate while another invocation is in progress,
\* and the aggregate holds several events.
C1_Witness ==
  \E p \in Procs : \E q \in Procs \ {p} :
    /\ run[p].error = "conflict"
    /\ run[q].pc # "idle"
    /\ Len(events[run[p].game.gameId]) >= 3

\* C2: after a cycle that completed without a storage error, the version field
\* of each snapshot equals the highest version among that game's events.
C2_SnapshotVersionIsLatest ==
  (Timer.pc = "done" /\ Timer.failedAt = {}) =>
    \A id \in GameIds :
      games[id] # NoGame => games[id].version = getCurrentVersion(events[id])

\* C3: of two cycles in sequence that fetch identical data without any storage
\* failure, the first leaves every fetched game with its creation events and
\* its snapshot, and the second appends no event and writes no snapshot.
C3_SecondRunIsNoOp ==
  /\ (Timer.pc = "done" /\ Timer.failedAt = {}) =>
       \A g \in FetchedGames(Timer) :
         /\ Len(events[g.gameId]) >= 1
         /\ events[g.gameId][1].eventType = "GAME_CREATED"
         /\ SnapshotHolds(games[g.gameId], g)
  /\ (Timer.pc = "done" /\ Timer.failedAt = {} /\ lastCycle.clean
        /\ Timer.got = lastCycle.got) =>
       Timer.appends = 0 /\ Timer.writes = 0

\* A second clean cycle fetched the games the first one fetched and is complete.
C3_Witness ==
  /\ Timer.pc = "done" /\ Timer.failedAt = {} /\ lastCycle.clean
  /\ Timer.got = lastCycle.got
  /\ Timer.processed = {"M1", "M2", "T1"}
  /\ \A id \in Timer.processed : Len(events[id]) >= 1

\* C4: a pass over a game that has a snapshot, when it runs to its end, has
\* appended exactly one event per differing field among status, score pair and
\* currentTime and none for an equal field, in the order STATUS_CHANGED,
\* SCORE_UPDATED, TIME_UPDATED, at consecutive versions, each event carrying the
\* snapshot's previous value and the fetched new value.
C4_OneEventPerDifferingField ==
  LET r == Timer
      new == r.game
      old == r.existingGame
      st == new.status # old.status
      sc == new.score1 # old.score1 \/ new.score2 # old.score2
      tm == new.currentTime # old.currentTime
      n == (IF st THEN 1 ELSE 0) + (IF sc THEN 1 ELSE 0) + (IF tm THEN 1 ELSE 0)
      scAt == IF st THEN 2 ELSE 1
  IN (r.pc = "passdone" /\ r.error = "none" /\ old # NoGame) =>
       /\ Len(r.emitted) = n
       /\ Len(events[new.gameId]) = r.base + n
       /\ \A i \in 1..n : /\ r.emitted[i].version = r.base + i
                          /\ events[new.gameId][r.base + i] = r.emitted[i]
       /\ st => /\ r.emitted[1].eventType = "STATUS_CHANGED"
                /\ r.emitted[1].previousStatus = old.status
                /\ r.emitted[1].newStatus = new.status
       /\ sc => /\ r.emitted[scAt].eventType = "SCORE_UPDATED"
                /\ r.emitted[scAt].previousScore = <<old.score1, old.score2>>
                /\ r.emitted[scAt].newScore = <<new.score1, new.score2>>
       /\ tm => /\ r.emitted[n].eventType = "TIME_UPDATED"
                /\ r.emitted[n].previousTime = old.currentTime
                /\ r.emitted[n].newTime = new.currentTime

\* A pass over an existing game ended with status, score and time all differing.
C4_Witness ==
  /\ Timer.pc = "passdone" /\ Timer.error = "none"
  /\ Timer.existingGame # NoGame
  /\ Timer.game.status # Timer.existingGame.status
  /\ Timer.game.score2 # Timer.existingGame.score2
  /\ Timer.game.currentTime # Timer.existingGame.currentTime
  /\ Len(Timer.emitted) = 3

\* C5: a pass over a game that has a snapshot, when it runs to its end, has
\* written the snapshot if and only if status, scores or currentTime differ
\* from the fetched game; after the write the snapshot's status, score1, score2
\* and currentTime equal the fetched values; without a write the snapshot is
\* the one the pass found.
C5_SnapshotWrittenIffChanged ==
  LET r == Timer
      new == r.game
      old == r.existingGame
      differs == \/ new.status # old.status
                 \/ new.score1 # old.score1 \/ new.score2 # old.score2
                 \/ new.currentTime # old.currentTime
  IN (r.pc = "passdone" /\ old # NoGame) =>
       /\ r.error = "none" => (r.wrote <=> differs)
       /\ r.wrote => differs /\ SnapshotHolds(games[new.gameId], new)
       /\ ~r.wrote => games[new.gameId] = old

\* A pass replaced a snapshot of which every mutable field differed.
C5_Witness ==
  /\ Timer.pc = "passdone" /\ Timer.wrote
  /\ Timer.existingGame # NoGame
  /\ Timer.game.status # Timer.existingGame.status
  /\ Timer.game.score1 # Timer.existingGame.score1
  /\ Timer.game.score2 # Timer.existingGame.score2
  /\ Timer.game.currentTime # Timer.existingGame.currentTime

\* C6: a pass over a fetched game with no snapshot and no prior event, when it
\* runs to its end, has appended GAME_CREATED at version 1, then GAME_STARTED
\* if and only if the status is LIVE, then SCORE_UPDATED from 0-0 to the fetched
\* pair if and only if a score is nonzero, at consecutive versions, and created
\* the snapshot with the fetched state; SCHEDULED 0-0 yields exactly one event.
C6_NewGameBootstrap ==
  LET r == Timer
      g == r.game
      live == g.status = "LIVE"
      scored == g.score1 # 0 \/ g.score2 # 0
      n == 1 + (IF live THEN 1 ELSE 0) + (IF scored THEN 1 ELSE 0)
  IN (r.pc = "passdone" /\ r.error = "none" /\ r.existingGame = NoGame /\ r.base = 0) =>
       /\ Len(r.emitted) = n
       /\ events[g.gameId] = r.emitted
       /\ \A i \in 1..n : r.emitted[i].version = i
       /\ r.emitted[1].eventType = "GAME_CREATED"
       /\ r.emitted[1].status = g.status
       /\ live => r.emitted[2].eventType = "GAME_STARTED" /\ r.emitted[2].status = "LIVE"
       /\ scored => /\ r.emitted[n].eventType = "SCORE_UPDATED"
                    /\ r.emitted[n].previousScore = <<0, 0>>
                    /\ r.emitted[n].newScore = <<g.score1, g.score2>>
       /\ (g.status = "SCHEDULED" /\ ~scored) => Len(events[g.gameId]) = 1
       /\ r.wrote
       /\ SnapshotHolds(games[g.gameId], g)

\* A new game that is live and whose second score alone is above zero was recorded.
C6_Witness ==
  /\ Timer.pc = "passdone" /\ Timer.error = "none"
  /\ Timer.existingGame = NoGame /\ Timer.base = 0
  /\ Timer.game.status = "LIVE"
  /\ Timer.game.score1 = 0 /\ Timer.game.score2 > 0
  /\ Len(Timer.emitted) = 3

\* C7: in every reachable state each game has at most one GAME_CREATED event,
\* and that event has version 1.
C7_OneGameCreatedAtVersionOne ==
  \A id \in GameIds : \A i \in 1..Len(events[id]) :
    events[id][i].eventType = "GAME_CREATED" => events[id][i].version = 1

\* C8: when an adapter's fetch throws in a cycle, every adapter is still
\* attempted, every game the other adapters returned is handed to processGame
\* and, storage permitting, its events are appended and its snapshot written.
C8_FetchFailureIsolated ==
  LET r == Timer
  IN (r.pc = "done" /\ \E a \in 1..Len(adapters) : r.outcome[a] = "throw") =>
       /\ \A a \in 1..Len(adapters) : r.outcome[a] # "none"
       /\ \A g \in FetchedGames(r) :
            /\ g.gameId \in r.processed
            /\ g.gameId \notin r.failedAt =>
                 /\ Len(events[g.gameId]) >= 1
                 /\ SnapshotHolds(games[g.gameId], g)

\* The soccer fetch threw and the tennis game of the same cycle was recorded.
C8_Witness ==
  /\ Timer.pc = "done"
  /\ Timer.outcome[1] = "throw"
  /\ Timer.outcome[2] = "ok"
  /\ "T1" \in Timer.processed
  /\ Len(events["T1"]) >= 1
  /\ games["T1"] # NoGame

\* C9: when the pass over a game throws (snapshot lookup, event append or
\* snapshot save), the cycle still hands every later game of the same adapter
\* and the games of every later adapter to processGame.
C9_GameFailureIsolated ==
  LET r == Timer
  IN (r.pc = "done" /\ r.failedAt # {}) =>
       /\ \A a \in 1..Len(adapters) : r.outcome[a] # "none"
       /\ \A a \in 1..Len(adapters) : \A i \in 1..Len(r.got[a]) :
            /\ r.got[a][i].gameId \in r.processed
            /\ r.got[a][i].gameId \notin r.failedAt =>
                 SnapshotHolds(games[r.got[a][i].gameId], r.got[a][i])

\* The pass over the first soccer game threw; the second soccer game and the
\* tennis game were recorded in the same cycle.
C9_Witness ==
  /\ Timer.pc = "done"
  /\ Timer.failedAt = {"M1"}
  /\ {"M2", "T1"} \subseteq Timer.processed
  /\ Len(events["M2"]) >= 1 /\ games["M2"] # NoGame
  /\ Len(events["T1"]) >= 1 /\ games["T1"] # NoGame

\* C10: when two writers of one aggregateId computed the same next version, one
\* insert succeeds and the other is rejected with an error and stores nothing;
\* no state holds two events with the same (aggregateId, version).
C10_OneWriterWinsPerVersion ==
  /\ [](\A id \in GameIds : \A i, j \in 1..Len(events[id]) :
          i # j => events[id][i].version # events[id][j].version)
  /\ [][\A p \in Procs :
          (run[p].pc = "insert" /\ run'[p].pc # "insert") =>
            LET id == run[p].game.gameId
                version == run[p].currentVersion + 1
            IN IF \E i \in 1..Len(events[id]) : events[id][i].version = version
               THEN events' = events /\ run'[p].error \in {"conflict", "insert"}
               ELSE \/ events' = events /\ run'[p].error = "insert"
                    \/ /\ Len(events'[id]) = Len(events[id]) + 1
                       /\ events'[id][Len(events'[id])].version = version
                       /\ run'[p].error = "none"]_vars

\* Two writers read the same current version of one aggregate; one stored its
\* event at the next version and the other was rejected.
C10_Witness ==
  \E p \in Procs : \E q \in Procs \ {p} :
    /\ run[p].error = "conflict"
    /\ run[q].game.gameId = run[p].game.gameId
    /\ \E i \in 1..Len(run[q].emitted) :
         /\ run[q].emitted[i].version = run[p].currentVersion + 1
         /\ events[run[p].game.gameId][run[p].currentVersion + 1] = run[q].emitted[i]

\* C11: an append the unique index rejected because a concurrent writer took
\* the version is retried with a freshly recomputed version: the step that
\* rejects the insert leads back to getCurrentVersion with the same event
\* still to be appended, and does not end the pass over the game.
C11_ConflictIsRetried ==
  [][\A p \in Procs :
       (/\ run[p].pc = "insert"
        /\ DuplicateKey(events[run[p].game.gameId], nextVersion(run[p].currentVersion))
        /\ run'[p] # run[p]
        /\ failures' = failures)
       => /\ run'[p].pc = "getver"
          /\ run'[p].todo = run[p].todo
          /\ run'[p].error = "none"]_vars

\* C12: when a storage operation fails because the store is unavailable, the
\* failure leaves syncAllSports as a rejection (the cycle neither goes on to
\* further games nor logs its completion), and after a cycle in which storage
\* failed the polling timer starts no further cycle.
C12_StorageFailureStopsPolling ==
  /\ Timer.failedAt # {} => Timer.pc = "rejected"
  /\ (lastCycle.outcome # NoFetch /\ ~lastCycle.clean) => Timer.pc = "idle"

\* C14: no step of the sync pipeline or of the EventStore modifies or removes
\* an event once appended: in every step each game's log keeps every document
\* it held, unchanged and at the same position, and can only get longer.
C14_EventsOnlyAppended ==
  [][\A id \in GameIds :
       /\ Len(events'[id]) >= Len(events[id])
       /\ \A i \in 1..Len(events[id]) : events'[id][i] = events[id][i]]_vars

\* A log that already held events of an earlier pass received further events
\* from a later pass over the same game.
C14_Witness ==
  \E p \in Procs :
    /\ run[p].pc = "passdone" /\ run[p].error = "none"
    /\ run[p].base >= 1
    /\ Len(run[p].emitted) >= 1
    /\ Len(events[run[p].game.gameId]) >= run[p].base + Len(run[p].emitted)

\* C15: within the pass over one game every event append completes before the
\* snapshot write: the step that writes the snapshot is taken with no append of
\* the pass left, and every event the pass planned is in the log by then. So
\* no state shows a snapshot without the events that explain it: a game that
\* has a snapshot has a log that starts with GAME_CREATED.
C15_EventsBeforeSnapshot ==
  /\ [](\A id \in GameIds :
          games[id] # NoGame =>
            Len(events[id]) >= 1 /\ events[id][1].eventType = "GAME_CREATED")
  /\ [][\A p \in Procs :
          (run[p].pc = "save" /\ run'[p].wrote) =>
            LET r == run[p]
                id == r.game.gameId
                plan == IF r.existingGame = NoGame THEN handleNewGame(r.game)
                        ELSE handleExistingGame(r.game, r.existingGame)
            IN /\ r.todo = <<>>
               /\ Len(r.emitted) = Len(plan)
               /\ \A i \in 1..Len(plan) :
                    /\ r.emitted[i].eventType = plan[i].eventType
                    /\ r.emitted[i].version <= Len(events[id])
                    /\ events[id][r.emitted[i].version] = r.emitted[i]]_vars

\* A pass that appended two events or more has written the snapshot.
C15_Witness ==
  \E p \in Procs :
    /\ run[p].wrote
    /\ Len(run[p].emitted) >= 2
    /\ games[run[p].game.gameId] = save(run[p].game)

\* C16: when two invocations of syncAllSports overlap and both observed the
\* same upstream state of a game, each change is recorded by one event only:
\* the two passes never both append an event of the same type with the same
\* payload (a second GAME_CREATED, STATUS_CHANGED, SCORE_UPDATED or
\* TIME_UPDATED for the same transition).
C16_NoDuplicateTransitionEvent ==
  \A p \in Procs : \A q \in Procs \ {p} :
    (run[p].game # NoGame /\ run[p].game = run[q].game) =>
      \A i \in 1..Len(run[p].emitted) : \A j \in 1..Len(run[q].emitted) :
        ~(/\ run[p].emitted[i].eventType = run[q].emitted[j].eventType
          /\ [run[p].emitted[i] EXCEPT !.version = 0]
               = [run[q].emitted[j] EXCEPT !.version = 0])

\* C17: once the overlapping invocations have all returned, a further cycle
\* whose storage operations all succeed ends with the snapshot of every game
\* it fetched equal to what upstream serves; and every later cycle that
\* fetches the same lists again appends no event and writes no snapshot.
C17_ConvergesWhenUpstreamStable ==
  (Timer.pc = "done" /\ cycles > MaxCycles /\ Timer.failedAt = {}) =>
    /\ \A g \in FetchedGames(Timer) :
         g = Game(g.gameId, upstream[g.gameId]) => SnapshotHolds(games[g.gameId], g)
    /\ (/\ cycles > MaxCycles + 1
        /\ lastCycle.clean
        /\ \A a \in 1..Len(adapters) :
             Timer.outcome[a] = "ok" /\ lastCycle.outcome[a] = "ok"
             /\ Timer.got[a] = lastCycle.got[a])
       => Timer.appends = 0 /\ Timer.writes = 0

\* The last of the overlapping cycles fetched what upstream still serves and
\* ended without error, yet an older invocation overwrote the snapshot after
\* it; the further cycle had to record the difference again and has completed.
C17_Witness ==
  /\ Timer.pc = "done" /\ cycles = MaxCycles + 1 /\ Timer.failedAt = {}
  /\ failures = 0
  /\ lastCycle.clean /\ lastCycle.outcome[1] = "ok"
  /\ Timer.got[1] = lastCycle.got[1]
  /\ Timer.appends > 0 /\ Timer.writes > 0
  /\ SnapshotHolds(games["M1"], Game("M1", upstream["M1"]))

\* C13: with working storage, whatever the APIs do (request failures, bodies
\* without the list, records that cannot be converted, unknown status strings,
\* a fetchGames that rejects), syncAllSports never rejects to its caller: no
\* invocation is ever in the rejected state, and a cycle that has completed
\* has gone through every adapter.
C13_UpstreamNeverRejectsCycle ==
  \A p \in Procs :
    /\ run[p].pc # "rejected"
    /\ run[p].pc = "done" => \A a \in 1..Len(adapters) : run[p].outcome[a] # "none"

\* One cycle has completed in which a fetchGames rejected, one API sent a body
\* that could not be converted and no storage operation failed.
C13_Witness ==
  /\ Timer.pc = "done"
  /\ \E a \in 1..Len(adapters) : Timer.outcome[a] = "throw"
  /\ \E a \in 1..Len(adapters) :
       /\ Timer.outcome[a] = "empty"
       /\ Timer.response[a].kind = "body"
       /\ Len(Timer.response[a].list) > 0

\* C18: in every list an adapter returned, each game's status is the one the
\* adapter's table gives for the upstream string (soccer LIVE, SCHEDULED,
\* FINISHED; tennis IN_PROGRESS, SCHEDULED, COMPLETED; hockey LIVE, SCHEDULED,
\* FINAL, read as live, scheduled, finished) and SCHEDULED for every other
\* string; and a response whose records convert with a known status converts
\* with any status: the status string never makes the fetch fail.
C18_StatusMapping ==
  LET Table(sport) ==
        CASE sport = "SOCCER" -> {<<"LIVE", "LIVE">>, <<"SCHEDULED", "SCHEDULED">>,
                                  <<"FINISHED", "FINISHED">>}
          [] sport = "TENNIS" -> {<<"IN_PROGRESS", "LIVE">>, <<"SCHEDULED", "SCHEDULED">>,
                                  <<"COMPLETED", "FINISHED">>}
          [] sport = "HOCKEY" -> {<<"LIVE", "LIVE">>, <<"SCHEDULED", "SCHEDULED">>,
                                  <<"FINAL", "FINISHED">>}
      Expected(sport, s) ==
        IF \E t \in Table(sport) : t[1] = s
        THEN (CHOOSE t \in Table(sport) : t[1] = s)[2]
        ELSE "SCHEDULED"
  IN \A a \in 1..Len(adapters) :
       LET list == Timer.response[a].list
       IN /\ Timer.outcome[a] = "ok" =>
               /\ Len(Timer.got[a]) = Len(list)
               /\ \A i \in 1..Len(list) :
                    Timer.got[a][i].status = Expected(adapters[a], list[i].status)
          /\ (/\ Timer.outcome[a] # "none"
              /\ Timer.response[a].kind = "body"
              /\ \A i \in 1..Len(list) :
                   ~convertThrows(adapters[a], [list[i] EXCEPT !.status = "SCHEDULED"]))
             => Timer.outcome[a] = "ok"

\* The tennis API sent a status the tennis adapter does not know; the game was
\* returned as SCHEDULED and recorded.
C18_Witness ==
  /\ Timer.outcome[2] = "ok"
  /\ Len(Timer.got[2]) = 1
  /\ Timer.response[2].list[1].status \in {"LIVE", "PAUSED", Undefined}
  /\ Timer.got[2][1].status = "SCHEDULED"
  /\ games["T1"] # NoGame /\ games["T1"].status = "SCHEDULED"

\* C19: when the request of an adapter failed or the payload was malformed (no
\* list in the body, or a record that lacks its id, one of its two names, its
\* score or its events, or that carries a negative score), fetchGames returned
\* the empty list without throwing, and the cycle handed no game of that
\* source to processGame: no event appended, no snapshot written for it.
C19_FailedFetchIsEmpty ==
  LET Names(sport, raw) ==
        CASE sport = "SOCCER" -> {raw.homeTeam, raw.awayTeam}
          [] sport = "TENNIS" -> {raw.player1, raw.player2}
          [] sport = "HOCKEY" -> {At(raw.teams, 1), At(raw.teams, 2)}
      Malformed(sport, response) ==
        \/ response.kind \in {"error", "nolist"}
        \/ \E i \in 1..Len(response.list) :
             \/ convertThrows(sport, response.list[i])
             \/ Undefined \in Names(sport, response.list[i])
  IN \A a \in 1..Len(adapters) :
       (Timer.outcome[a] # "none" /\ Malformed(adapters[a], Timer.response[a])) =>
         /\ Timer.outcome[a] = "empty"
         /\ Timer.got[a] = <<>>
         /\ \A i \in 1..Len(GamesOf(adapters[a])) :
              GamesOf(adapters[a])[i] \notin Timer.processed

\* C20: every game handed to processGame has a non-empty gameId, a sport and
\* two participants each with a name, whatever the API sent; a record that
\* lacks one of these is rejected at conversion, so no GAME_CREATED in the log
\* was appended for a game without a participant's name.
C20_GamesAreWellFormed ==
  /\ \A p \in Procs :
       run[p].game # NoGame =>
         /\ run[p].game.gameId \notin {"", " ", Undefined}
         /\ run[p].game.sport \in SportType
         /\ run[p].game.team1 # Undefined
         /\ run[p].game.team2 # Undefined
  /\ \A id \in GameIds : \A i \in 1..Len(events[id]) :
       events[id][i].eventType = "GAME_CREATED" =>
         events[id][i].team1 # Undefined /\ events[id][i].team2 # Undefined

\* C21: a pass over a game that has a snapshot rejects no transition: whatever
\* the old and the new status (FINISHED back to SCHEDULED or LIVE included) and
\* whatever the old and the new scores (a decrease or a reset to 0-0 included),
\* the pass ends in its catch block only when a storage operation failed, and
\* when it ends without error it has appended a STATUS_CHANGED carrying both
\* statuses if they differ, a SCORE_UPDATED carrying both score pairs if they
\* differ, and the snapshot holds the new status and scores.
C21_NoTransitionRejected ==
  LET r == Timer
      new == r.game
      old == r.existingGame
      Has(type, f, prev, next) ==
        \E i \in 1..Len(r.emitted) :
          /\ r.emitted[i].eventType = type
          /\ r.emitted[i]["previous" \o f] = prev
          /\ r.emitted[i]["new" \o f] = next
          /\ events[new.gameId][r.emitted[i].version] = r.emitted[i]
  IN (r.pc = "passdone" /\ old # NoGame) =>
       /\ r.error \in {"none", "find", "getver", "insert", "save"}
       /\ r.error # "none" => failures > 0
       /\ r.error = "none" =>
            /\ new.status # old.status =>
                 Has("STATUS_CHANGED", "Status", old.status, new.status)
            /\ (new.score1 # old.score1 \/ new.score2 # old.score2) =>
                 Has("SCORE_UPDATED", "Score", <<old.score1, old.score2>>,
                     <<new.score1, new.score2>>)
            /\ games[new.gameId].status = new.status
            /\ games[new.gameId].score1 = new.score1
            /\ games[new.gameId].score2 = new.score2

\* A finished game with a score came back as SCHEDULED at 0-0; both changes
\* were recorded and the snapshot follows.
C21_Witness ==
  /\ Timer.pc = "passdone" /\ Timer.error = "none"
  /\ Timer.existingGame # NoGame
  /\ Timer.existingGame.status = "FINISHED"
  /\ Timer.existingGame.score1 = 1
  /\ Timer.game.status = "SCHEDULED"
  /\ Timer.game.score1 = 0 /\ Timer.game.score2 = 0
  /\ Len(Timer.emitted) >= 2
  /\ games[Timer.game.gameId].status = "SCHEDULED"
  /\ games[Timer.game.gameId].score1 = 0

\* Replaying a log in version order: the status is the one of the last
\* GAME_CREATED / GAME_STARTED / STATUS_CHANGED, the scores are those of the
\* last SCORE_UPDATED, starting from no status and 0-0.
Replay(log) ==
  LET Apply(st, e) ==
        CASE e.eventType \in {"GAME_CREATED", "GAME_STARTED"} ->
               [st EXCEPT !.status = e.status]
          [] e.eventType = "STATUS_CHANGED" -> [st EXCEPT !.status = e.newStatus]
          [] e.eventType = "SCORE_UPDATED" ->
               [st EXCEPT !.score1 = e.newScore[1], !.score2 = e.newScore[2]]
          [] OTHER -> st
      ByVersion(v) == CHOOSE i \in 1..Len(log) : log[i].version = v
      Fold[n \in 0..Len(log)] ==
        IF n = 0 THEN [status |-> NoStatus, score1 |-> 0, score2 |-> 0]
        ELSE Apply(Fold[n - 1], log[ByVersion(n)])
  IN Fold[Len(log)]

\* C23: in a run of cycles that follow one another with no failure, whenever
\* a cycle has completed, the replay of each game's events in version order
\* gives the status and the scores of the game's snapshot, and a game without
\* snapshot has no event.
C23_ReplayEqualsSnapshot ==
  (failures = 0 /\ Timer.pc \in {"done", "idle"}) =>
    \A id \in GameIds :
      IF games[id] = NoGame THEN events[id] = <<>>
      ELSE /\ Replay(events[id]).status = games[id].status
           /\ Replay(events[id]).score1 = games[id].score1
           /\ Replay(events[id]).score2 = games[id].score2

\* Two cycles have completed without failure; the game was created with one
\* state and changed status and score afterwards.
C23_Witness ==
  /\ failures = 0 /\ Timer.pc = "done" /\ cycles = 2
  /\ \E i, j \in 1..Len(events["M1"]) :
       /\ i > 1 /\ j > 1
       /\ events["M1"][i].eventType = "STATUS_CHANGED"
       /\ events["M1"][j].eventType = "SCORE_UPDATED"
  /\ Replay(events["M1"]).status = games["M1"].status

\* C27: a game whose log starts with GAME_CREATED carrying SCHEDULED and whose
\* snapshot is SCHEDULED, when a pass fetches it as LIVE and runs to its end
\* without error, gets a GAME_STARTED event appended for that transition.
C27_GameStartedOnGoingLive ==
  LET r == Timer
  IN (/\ r.pc = "passdone" /\ r.error = "none"
      /\ r.existingGame # NoGame
      /\ r.existingGame.status = "SCHEDULED"
      /\ r.game.status = "LIVE"
      /\ events[r.game.gameId][1].eventType = "GAME_CREATED"
      /\ events[r.game.gameId][1].status = "SCHEDULED")
     => \E i \in 1..Len(r.emitted) : r.emitted[i].eventType = "GAME_STARTED"

\* C22: once a game has a snapshot, no step changes the snapshot's sport,
\* team1 or team2, whatever names or sport the adapters return for the id.
C22_IdentityImmutable ==
  [][\A id \in GameIds :
       games[id] # NoGame =>
         /\ games'[id] # NoGame
         /\ games'[id].sport = games[id].sport
         /\ games'[id].team1 = games[id].team1
         /\ games'[id].team2 = games[id].team2]_vars

----------------------------------------------------------------------------
(* Read side: the queries of EventStore and GameRepository, and GameController *)

\* The ids in the order of sort({sport: 1, gameId: 1}).
GameOrder == <<"H1", "M1", "M2", "T1">>

\* The documents of the `events` collection, of all aggregates together.
EventModel == events["H1"] \o events["M1"] \o events["M2"] \o events["T1"]

\* .sort({version: 1})
RECURSIVE sortByVersion(_)
sortByVersion(docs) ==
  IF Len(docs) <= 1 THEN docs
  ELSE LET e == Head(docs)
           rest == sortByVersion(Tail(docs))
       IN SelectSeq(rest, LAMBDA d : d.version < e.version) \o <<e>>
            \o SelectSeq(rest, LAMBDA d : d.version >= e.version)

\* EventModel.find({aggregateId}).sort({version: 1})
getEventsByGameId(aggregateId) ==
  sortByVersion(SelectSeq(EventModel, LAMBDA d : d.aggregateId = aggregateId))

\* Variant: the bound on the version is inclusive ($gte).
getEventsFromVersion(aggregateId, afterVersion) ==
  sortByVersion(SelectSeq(EventModel,
    LAMBDA d : d.aggregateId = aggregateId /\ d.version >= afterVersion))

\* EventModel.find({aggregateId, version: {$gt: afterVersion}}).sort({version: 1})
getEventsAfterVersion(aggregateId, afterVersion) ==
  sortByVersion(SelectSeq(EventModel,
    LAMBDA d : d.aggregateId = aggregateId /\ d.version > afterVersion))

\* GameModel.findOne({gameId}) : the document, or null.
findById(gameId) == IF gameId \in GameIds THEN games[gameId] ELSE NoGame

\* GameModel.find(): the stored documents (the order by lastUpdated is not
\* represented: the documents come in the order of GameOrder).
findAll ==
  LET stored == SelectSeq(GameOrder, LAMBDA id : games[id] # NoGame)
  IN [i \in 1..Len(stored) |-> games[stored[i]]]

\* GameModel.find({sport})
findBySport(sport) == SelectSeq(findAll, LAMBDA g : g.sport = sport)

\* GameModel.find({status: 'LIVE'}).sort({sport: 1, gameId: 1})
findLiveGames == SelectSeq(findAll, LAMBDA g : g.status = "LIVE")

\* GameModel.countDocuments()
count == Cardinality({id \in GameIds : games[id] # NoGame})

\* aggregate([{$group: {_id: '$status', count: {$sum: 1}}}]) reduced to an object
countByStatus ==
  [s \in {findAll[i].status : i \in 1..Len(findAll)} |->
     Len(SelectSeq(findAll, LAMBDA g : g.status = s))]

\* What a failing storage call throws: the driver's error, whose content depends
\* on the deployment (host, database and user names).
StorageErrors == {"MongoNetworkError: connect ECONNREFUSED 10.0.0.5:27017",
                  "MongoServerError: user admin is not authorized on sports"}

\* A request meets no storage error, or its at-th storage call throws.
NoFault == [at |-> 0, content |-> ""]

Faults == {NoFault} \cup [at : 1..4, content : StorageErrors]

\* The ids and sport names clients ask for; "X9" is the id of no game.
RequestIds == {"M1", "T1", "X9"}

RequestSports == {"soccer", "TENNIS", "golf"}

\* sport.toUpperCase()
toUpperCase(sport) ==
  CASE sport = "soccer" -> "SOCCER"
    [] sport = "TENNIS" -> "TENNIS"
    [] sport = "golf" -> "GOLF"

\* ApiResponse: res.status(code).json({success, data | error, timestamp});
\* the timestamp is the time of the response and is not represented.
ApiResponse(status, success, error, data) ==
  [status |-> status, success |-> success, error |-> error, data |-> data]

\* GameResponseDto
GameResponseDto(game) ==
  [gameId |-> game.gameId, sport |-> game.sport, team1 |-> game.team1,
   team2 |-> game.team2, score1 |-> game.score1, score2 |-> game.score2,
   status |-> game.status, currentTime |-> game.currentTime]

gamesDto(found) == [i \in 1..Len(found) |-> GameResponseDto(found[i])]

\* EventResponseDto (eventId and timestamp are not represented)
EventResponseDto(event) ==
  [eventType |-> event.eventType, gameId |-> event.aggregateId,
   version |-> event.version,
   payload |-> [f \in DOMAIN EmptyPayload |-> event[f]]]

\* Variant: the caught error's message is sent to the client.
getAllGamesSendsError(fault) ==
  IF fault.at = 1 THEN ApiResponse(500, FALSE, fault.content, <<>>)
  ELSE ApiResponse(200, TRUE, "", gamesDto(findAll))

\* GET /api/games
getAllGames(fault) ==
  IF fault.at = 1 THEN ApiResponse(500, FALSE, "Failed to fetch games", <<>>)
  ELSE ApiResponse(200, TRUE, "", gamesDto(findAll))

\* Variant: a missing game is answered like a failed lookup.
getGameByIdMissingIs500(id, fault) ==
  IF fault.at = 1 \/ findById(id) = NoGame
    THEN ApiResponse(500, FALSE, "Failed to fetch game", <<>>)
  ELSE ApiResponse(200, TRUE, "", <<GameResponseDto(findById(id))>>)

\* GET /api/games/:id
getGameById(id, fault) ==
  IF fault.at = 1 THEN ApiResponse(500, FALSE, "Failed to fetch game", <<>>)
  ELSE IF findById(id) = NoGame
    THEN ApiResponse(404, FALSE, "Game with ID '" \o id \o "' not found", <<>>)
  ELSE ApiResponse(200, TRUE, "", <<GameResponseDto(findById(id))>>)

\* GET /api/games/:id/events
getGameEvents(id, fault) ==
  IF fault.at = 1 THEN ApiResponse(500, FALSE, "Failed to fetch game events", <<>>)
  ELSE IF findById(id) = NoGame
    THEN ApiResponse(404, FALSE, "Game with ID '" \o id \o "' not found", <<>>)
  ELSE IF fault.at = 2
    THEN ApiResponse(500, FALSE, "Failed to fetch game events", <<>>)
  ELSE LET found == getEventsByGameId(id)
       IN ApiResponse(200, TRUE, "",
            <<[game |-> GameResponseDto(findById(id)),
               events |-> [i \in 1..Len(found) |-> EventResponseDto(found[i])],
               totalEvents |-> Len(found)]>>)

\* GET /api/games/sport/:sport
getGamesBySport(sport, fault) ==
  IF toUpperCase(sport) \notin {"SOCCER", "TENNIS", "HOCKEY"}
    THEN ApiResponse(400, FALSE,
           "Invalid sport. Must be one of: SOCCER, TENNIS, HOCKEY", <<>>)
  ELSE IF fault.at = 1
    THEN ApiResponse(500, FALSE, "Failed to fetch games by sport", <<>>)
  ELSE ApiResponse(200, TRUE, "", gamesDto(findBySport(toUpperCase(sport))))

\* GET /api/games/live
getLiveGames(fault) ==
  IF fault.at = 1 THEN ApiResponse(500, FALSE, "Failed to fetch live games", <<>>)
  ELSE ApiResponse(200, TRUE, "", gamesDto(findLiveGames))

RECURSIVE Sum(_)
Sum(numbers) == IF Len(numbers) = 0 THEN 0 ELSE Head(numbers) + Sum(Tail(numbers))

\* GET /api/stats : count(), countByStatus(), findAll(), then countEvents() for
\* each game found; the fourth kind of call happens only when a game is stored.
getStats(fault) ==
  IF fault.at \in 1..3 \/ (fault.at = 4 /\ Len(findAll) > 0)
    THEN ApiResponse(500, FALSE, "Failed to fetch stats", <<>>)
  ELSE ApiResponse(200, TRUE, "",
         <<[totalGames |-> count, byStatus |-> countByStatus,
            bySport |-> [s \in {findAll[i].sport : i \in 1..Len(findAll)} |->
                           Len(SelectSeq(findAll, LAMBDA g : g.sport = s))],
            totalEvents |-> Sum([i \in 1..Len(findAll) |->
                                   countEvents(events[findAll[i].gameId])])]>>)

\* The routes of gameRoutes.ts and statsRoutes.ts.
Endpoints == {"getAllGames", "getLiveGames", "getGamesBySport", "getGameById",
              "getGameEvents", "getStats"}

\* The parameters a request to the endpoint carries.
ParamsOf(endpoint) ==
  CASE endpoint \in {"getGameById", "getGameEvents"} -> RequestIds
    [] endpoint = "getGamesBySport" -> RequestSports
    [] OTHER -> {""}

\* The storage calls the handler of the endpoint can make.
FaultsOf(endpoint) ==
  {f \in Faults :
     f.at <= (CASE endpoint = "getGameEvents" -> 2
                [] endpoint = "getStats" -> 4
                [] OTHER -> 1)}

\* The router: the handler of the endpoint answers the request.
Handle(endpoint, param, fault) ==
  CASE endpoint = "getAllGames" -> getAllGames(fault)
    [] endpoint = "getLiveGames" -> getLiveGames(fault)
    [] endpoint = "getGamesBySport" -> getGamesBySport(param, fault)
    [] endpoint = "getGameById" -> getGameById(param, fault)
    [] endpoint = "getGameEvents" -> getGameEvents(param, fault)
    [] endpoint = "getStats" -> getStats(fault)

\* A client's request is answered, with no step of the sync service between
\* the storage calls of its handler.
Request ==
  /\ \E endpoint \in Endpoints : \E param \in ParamsOf(endpoint) :
       \E fault \in FaultsOf(endpoint) :
         http' = [endpoint |-> endpoint, param |-> param, fault |-> fault,
                  response |-> Handle(endpoint, param, fault)]
  /\ UNCHANGED <<upstream, games, events, run, lastCycle, changes, failures, cycles,
                 polling, stats>>

\* The soccer API lists a game in play, the tennis API a scheduled one.
InitReadApi ==
  /\ upstream = [id \in GameIds |->
                   CASE id = "M1" -> [status |-> "LIVE", score1 |-> 1, score2 |-> 0,
                                      currentTime |-> "1 min"]
                     [] id = "T1" -> InitData
                     [] OTHER -> NotListed]
  /\ InitStores

\* The API is served while the sync service runs its cycles.
NextReadApi == Step("timer") \/ Request

SpecReadApi == InitReadApi /\ [][NextReadApi]_vars

----------------------------------------------------------------------------
\* C24: getGameById answers 500 with success false exactly when the lookup in
\* the snapshot store throws, 404 with success false exactly when the lookup
\* returns no snapshot for the id, and otherwise 200 with success true and the
\* game of that id; success is true in the last case only.
C24_GetGameByIdEnvelope ==
  [][(http' # http /\ http'.endpoint = "getGameById") =>
       LET id == http'.param
           throws == http'.fault.at = 1
           missing == ~throws /\ findById(id) = NoGame
           response == http'.response
       IN /\ response.status = 500 <=> throws
          /\ response.status = 404 <=> missing
          /\ response.status = 200 <=> (~throws /\ ~missing)
          /\ response.success <=> (~throws /\ ~missing)
          /\ response.status \in {200, 404, 500}
          /\ response.success =>
               /\ response.data = <<GameResponseDto(games[id])>>
               /\ response.data[1].gameId = id]_vars

\* A stored game was asked for and came back in a success envelope.
C24_Witness ==
  /\ http.endpoint = "getGameById"
  /\ http.param = "M1"
  /\ http.response.status = 200
  /\ http.response.success
  /\ http.response.data[1].gameId = "M1"

----------------------------------------------------------------------------
\* C25: for every read endpoint, two requests that meet the same stores and
\* differ only in the error the failing storage call throws get the same
\* response, and every storage-failure response of an endpoint carries the
\* same status code (500) and the same message, whichever call failed.
C25_ErrorEnvelopeIndependent ==
  \A endpoint \in Endpoints : \A param \in ParamsOf(endpoint) :
    \A f1, f2 \in FaultsOf(endpoint) :
      LET r1 == Handle(endpoint, param, f1)
          r2 == Handle(endpoint, param, f2)
      IN /\ f1.at = f2.at => r1 = r2
         /\ (r1.status = 500 /\ r2.status = 500) =>
              /\ r1.error = r2.error
              /\ r1.data = <<>> /\ r2.data = <<>>
              /\ ~r1.success /\ ~r2.success
         /\ r1.status = 500 => f1.at > 0

\* The events of a stored game were asked for, the event store threw, and the
\* client got what it would have got for the other error.
C25_Witness ==
  /\ http.endpoint = "getGameEvents"
  /\ http.fault.at = 2
  /\ http.response.status = 500
  /\ http.response.error = "Failed to fetch game events"
  /\ \E other \in StorageErrors \ {http.fault.content} :
       Handle(http.endpoint, http.param, [at |-> 2, content |-> other]) = http.response

----------------------------------------------------------------------------
\* C26: getEventsByGameId(id) returns all events of the game and only those,
\* in strictly ascending version order; getEventsAfterVersion(id, v) returns
\* exactly those of them with version > v, in the same order, so that
\* getEventsAfterVersion(id, 0) equals getEventsByGameId(id); events of
\* different games are never mixed.
C26_EventQueries ==
  \A id \in GameIds \cup RequestIds :
    LET found == getEventsByGameId(id)
    IN /\ \A i \in 1..Len(found) : found[i].aggregateId = id
       /\ \A i \in 1..Len(EventModel) :
            EventModel[i].aggregateId = id => \E j \in 1..Len(found) : found[j] = EventModel[i]
       /\ Len(found) = Cardinality({i \in 1..Len(EventModel) : EventModel[i].aggregateId = id})
       /\ \A i, j \in 1..Len(found) : i < j => found[i].version < found[j].version
       /\ \A v \in 0..(Len(EventModel) + 1) :
            getEventsAfterVersion(id, v) = SelectSeq(found, LAMBDA d : d.version > v)
       /\ getEventsAfterVersion(id, 0) = found

\* Two games have events, the soccer game several; a client was given the
\* soccer game's events, and the events after version 1 are a proper part of them.
C26_Witness ==
  /\ Len(getEventsByGameId("M1")) >= 3
  /\ Len(getEventsByGameId("T1")) >= 1
  /\ Len(getEventsAfterVersion("M1", 1)) = Len(getEventsByGameId("M1")) - 1
  /\ getEventsAfterVersion("M1", 1)[1].version = 2
  /\ http.endpoint = "getGameEvents" /\ http.param = "M1"
  /\ http.response.status = 200
  /\ http.response.data[1].totalEvents = Len(getEventsByGameId("M1"))

----------------------------------------------------------------------------
(* GameSyncService: startPolling, stopPolling, the interval timer, syncOnce *)

\* syncAllSports() is called and runs up to its first await.
EnterSyncAllSports(p) ==
  /\ run[p].pc = "idle"
  /\ cycles < MaxPollingCycles
  /\ cycles' = cycles + 1
  /\ run' = [run EXCEPT ![p] = [IdleRun EXCEPT !.pc = "fetch", !.adapter = 1]]

\* syncAllSports() returns to the caller awaiting it.
SyncAllSportsReturns(p) ==
  /\ run[p].pc = "done"
  /\ lastCycle' = [got |-> run[p].got, outcome |-> run[p].outcome,
                   clean |-> run[p].failedAt = {}]
  /\ run' = [run EXCEPT ![p] = IdleRun]

\* setInterval(...): a new timer is set and intervalId holds it.
setInterval(pl) ==
  [pl EXCEPT !.created = @ + 1, !.intervalId = pl.created + 1,
             !.timers = @ \cup {pl.created + 1}]

\* startPolling(): returns at once when isRunning; otherwise sets isRunning and
\* calls syncAllSports(), which it awaits.
StartPolling(p) ==
  \/ /\ polling.isRunning
     /\ polling' = [polling EXCEPT !.lastCall = "startPolling: already running",
                                   !.ticked = FALSE]
     /\ UNCHANGED <<upstream, games, events, run, lastCycle, changes, failures,
                    cycles, http, stats>>
  \/ /\ ~polling.isRunning
     /\ EnterSyncAllSports(p)
     /\ polling' = [polling EXCEPT !.isRunning = TRUE, !.initial = @ \cup {p},
                                   !.lastCall = "startPolling", !.ticked = FALSE]
     /\ UNCHANGED <<upstream, games, events, lastCycle, changes, failures, http, stats>>

\* startPolling() resumes after `await this.syncAllSports()` and sets the timer.
InitialSyncReturns(p) ==
  /\ p \in polling.initial
  /\ SyncAllSportsReturns(p)
  /\ polling' = [setInterval(polling) EXCEPT !.initial = @ \ {p}]
  /\ UNCHANGED <<upstream, games, events, changes, failures, cycles, http, stats>>

\* stopPolling(): clears the timer intervalId holds, if any; isRunning = false.
StopPolling ==
  /\ polling' = [polling EXCEPT !.timers = @ \ {polling.intervalId},
                                !.intervalId = 0, !.isRunning = FALSE,
                                !.lastCall = "stopPolling", !.ticked = FALSE]
  /\ UNCHANGED <<upstream, games, events, run, lastCycle, changes, failures,
                 cycles, http, stats>>

\* Variant: the timer callback skips the tick while a cycle is in progress.
TickWhenIdle(p) ==
  /\ polling.timers # {}
  /\ \A q \in Procs : run[q].pc = "idle"
  /\ EnterSyncAllSports(p)
  /\ polling' = [polling EXCEPT !.ticking = @ \cup {p}, !.ticked = TRUE]
  /\ UNCHANGED <<upstream, games, events, lastCycle, changes, failures, http, stats>>

\* A timer that is set fires: its callback calls syncAllSports().
Tick(p) ==
  /\ polling.timers # {}
  /\ EnterSyncAllSports(p)
  /\ polling' = [polling EXCEPT !.ticking = @ \cup {p}, !.ticked = TRUE]
  /\ UNCHANGED <<upstream, games, events, lastCycle, changes, failures, http, stats>>

\* syncOnce(): the manual trigger calls syncAllSports().
SyncOnce(p) ==
  /\ EnterSyncAllSports(p)
  /\ UNCHANGED <<upstream, games, events, lastCycle, changes, failures, http, stats, polling>>

\* syncAllSports() returns to the timer callback or to syncOnce.
CycleReturns(p) ==
  /\ p \notin polling.initial
  /\ SyncAllSportsReturns(p)
  /\ polling' = [polling EXCEPT !.ticking = @ \ {p}]
  /\ UNCHANGED <<upstream, games, events, changes, failures, cycles, http, stats>>

\* The steps of a cycle between its entry and its return.
Work(p) ==
  \/ FetchGames(p)
  \/ FetchGamesEmpty(p)
  \/ FetchGamesThrows(p)
  \/ FindById(p)
  \/ GetCurrentVersion(p)
  \/ SaveEvent(p)
  \/ SaveGame(p)
  \/ StorageError(p)
  \/ ProcessGameReturns(p)

\* The service is driven by calls of startPolling, stopPolling and syncOnce in
\* any order and by its timers.
NextPolling ==
  \/ \E p \in Procs : StartPolling(p)
  \/ StopPolling
  \/ \E p \in Procs : InitialSyncReturns(p)
  \/ \E p \in Procs : Tick(p)
  \/ \E p \in Procs : SyncOnce(p)
  \/ \E p \in Procs : CycleReturns(p)
  \/ \E p \in Procs : Work(p)

SpecPolling == InitOverlap /\ [][NextPolling]_vars

----------------------------------------------------------------------------
\* C28: across any sequence of startPolling and stopPolling calls, including
\* calls made while the initial sync of an earlier startPolling is still
\* awaited, at most one polling timer is set, and the timer that is set is the
\* one intervalId holds.
C28_AtMostOneTimer ==
  /\ Cardinality(polling.timers) <= 1
  /\ \A t \in polling.timers : t = polling.intervalId

----------------------------------------------------------------------------
\* C29: once stopPolling has been called and startPolling has not been called
\* since, isRunning is false, intervalId is unset, no timer is set and no
\* timer-driven cycle has started since the call, also when stopPolling was
\* called during startPolling's initial sync.
C29_StoppedStaysStopped ==
  polling.lastCall = "stopPolling" =>
    /\ ~polling.isRunning
    /\ polling.intervalId = 0
    /\ polling.timers = {}
    /\ ~polling.ticked

----------------------------------------------------------------------------
\* The invocations of syncAllSports in progress.
InProgress == {p \in Procs : run[p].pc # "idle"}

\* C30 as stated: at most one execution of syncAllSports is in progress at
\* any time.
C30_OneExecutionAtATime == Cardinality(InProgress) <= 1

\* C30: executions of syncAllSports are not serialised. A tick of a set timer
\* and a call of syncOnce each start a cycle whether or not an earlier
\* execution is still in progress (as long as an invocation slot and a cycle
\* of the bound are left).
C30_CyclesNotSerialised ==
  \A p \in Procs :
    (run[p].pc = "idle" /\ cycles < MaxPollingCycles) =>
      /\ ENABLED SyncOnce(p)
      /\ polling.timers # {} => ENABLED Tick(p)

\* A cycle started by a tick and a cycle started otherwise are in progress
\* together, and both are past their first fetch.
C30_Witness ==
  /\ InProgress = Procs
  /\ Cardinality(polling.ticking) = 1
  /\ polling.initial = {}
  /\ \A p \in Procs : run[p].adapter > 1

----------------------------------------------------------------------------
\* The status established by the last status-bearing event among log[1..n].
RECURSIVE StatusAfter(_, _)
StatusAfter(log, n) ==
  IF n = 0 THEN NoStatus
  ELSE IF log[n].eventType \in {"GAME_CREATED", "GAME_STARTED"} THEN log[n].status
  ELSE IF log[n].eventType = "STATUS_CHANGED" THEN log[n].newStatus
  ELSE StatusAfter(log, n - 1)

\* The newScore of the last SCORE_UPDATED among log[1..n], 0-0 if there is none.
RECURSIVE ScoreAfter(_, _)
ScoreAfter(log, n) ==
  IF n = 0 THEN <<0, 0>>
  ELSE IF log[n].eventType = "SCORE_UPDATED" THEN log[n].newScore
  ELSE ScoreAfter(log, n - 1)

\* C31: in every reachable state, also after an append or a save failed in the
\* middle of a game's processing, the previousStatus of every STATUS_CHANGED is
\* the status the preceding status-bearing event of the game established, and
\* the previousScore of every SCORE_UPDATED is the newScore of the preceding
\* SCORE_UPDATED of the game (0-0 if there is none).
C31_EventsChain ==
  \A id \in GameIds :
    LET log == getEventsByGameId(id)
    IN \A i \in 1..Len(log) :
         /\ log[i].eventType = "STATUS_CHANGED" =>
              log[i].previousStatus = StatusAfter(log, i - 1)
         /\ log[i].eventType = "SCORE_UPDATED" =>
              log[i].previousScore = ScoreAfter(log, i - 1)

----------------------------------------------------------------------------
\* The newTime of the last TIME_UPDATED among log[1..n], NoTime if there is none.
RECURSIVE TimeAfter(_, _)
TimeAfter(log, n) ==
  IF n = 0 THEN NoTime
  ELSE IF log[n].eventType = "TIME_UPDATED" THEN log[n].newTime
  ELSE TimeAfter(log, n - 1)

\* C32: in a run of cycles that follow one another with no failure, whenever a
\* cycle has completed, the currentTime of each game's snapshot equals the
\* newTime of the game's latest TIME_UPDATED event, also for a game that was
\* created and whose time has not changed since.
C32_TimeRebuiltFromEvents ==
  (failures = 0 /\ Timer.pc \in {"done", "idle"}) =>
    \A id \in GameIds :
      games[id] # NoGame =>
        LET log == getEventsByGameId(id)
        IN TimeAfter(log, Len(log)) = games[id].currentTime

----------------------------------------------------------------------------
\* C33: when a step of a pass over a game has failed (the lookup, an event
\* append or the snapshot save threw), the pass has written no snapshot: the
\* game's snapshot is the one the pass found (absent if it was absent), and the
\* events the pass appended before the failure are the last events of the log.
C33_FailedPassLeavesSnapshot ==
  LET r == Timer
      id == r.game.gameId
  IN (r.pc = "passdone" /\ r.error # "none") =>
       /\ ~r.wrote
       /\ r.error = "find" => r.emitted = <<>>
       /\ r.error # "find" =>
            /\ games[id] = r.existingGame
            /\ Len(events[id]) = r.base + Len(r.emitted)
            /\ \A i \in 1..Len(r.emitted) : events[id][r.base + i] = r.emitted[i]

\* The snapshot save of a pass over a stored game threw after the pass had
\* appended an event: the snapshot is the old one, the event is in the log.
C33_Witness ==
  /\ Timer.pc = "passdone"
  /\ Timer.error = "save"
  /\ Timer.existingGame # NoGame
  /\ games[Timer.game.gameId] = Timer.existingGame
  /\ Len(Timer.emitted) >= 1
  /\ events[Timer.game.gameId][Len(events[Timer.game.gameId])] = Timer.emitted[Len(Timer.emitted)]

----------------------------------------------------------------------------
\* C34: in every reachable state and for every game id, countEvents(id) equals
\* getCurrentVersion(id): the number of stored events of the game is its
\* highest stored version, and both are 0 for a game without events.
C34_CountIsCurrentVersion ==
  \A id \in GameIds :
    /\ countEvents(events[id]) = getCurrentVersion(events[id])
    /\ events[id] = <<>> => (countEvents(events[id]) = 0 /\ getCurrentVersion(events[id]) = 0)

\* Two overlapping invocations have both appended events of the same game,
\* one of them after a version conflict of the other.
C34_Witness ==
  /\ \A p \in Procs : run[p].appends >= 1
  /\ \E p \in Procs : run[p].error = "conflict"
  /\ countEvents(events["M1"]) >= 3
  /\ getCurrentVersion(events["M1"]) = countEvents(events["M1"])

----------------------------------------------------------------------------
(* GameController.getStats, one storage call at a time *)

\* StatsResponseDto, with bySport counted over the games findAll returned.
StatsResponseDto(totalGames, byStatus, allGames, totalEvents) ==
  [totalGames |-> totalGames, byStatus |-> byStatus,
   bySport |-> [s \in {allGames[i].sport : i \in 1..Len(allGames)} |->
                  Len(SelectSeq(allGames, LAMBDA g : g.sport = s))],
   totalEvents |-> totalEvents]

\* res.json / res.status(500).json of getStats: the exchange is over.
StatsAnswer(response) ==
  /\ http' = [endpoint |-> "getStats", param |-> "", fault |-> stats.fault,
              response |-> response]
  /\ stats' = NoStats

\* The catch block of getStats.
StatsCatch == StatsAnswer(ApiResponse(500, FALSE, "Failed to fetch stats", <<>>))

\* GET /api/stats arrives; the handler runs up to its first await.
GetStats ==
  /\ stats.pc = "idle"
  /\ \E fault \in FaultsOf("getStats") :
       stats' = [NoStats EXCEPT !.pc = "count", !.fault = fault]
  /\ UNCHANGED <<upstream, games, events, run, lastCycle, changes, failures, cycles,
                 http, polling>>

\* const totalGames = await this.gameRepository.count()
StatsCount ==
  /\ stats.pc = "count"
  /\ IF stats.fault.at = 1 THEN StatsCatch
     ELSE /\ stats' = [stats EXCEPT !.pc = "countByStatus", !.totalGames = count]
          /\ UNCHANGED http
  /\ UNCHANGED <<upstream, games, events, run, lastCycle, changes, failures, cycles,
                 polling>>

\* const byStatus = await this.gameRepository.countByStatus()
StatsCountByStatus ==
  /\ stats.pc = "countByStatus"
  /\ IF stats.fault.at = 2 THEN StatsCatch
     ELSE /\ stats' = [stats EXCEPT !.pc = "findAll", !.byStatus = countByStatus]
          /\ UNCHANGED http
  /\ UNCHANGED <<upstream, games, events, run, lastCycle, changes, failures, cycles,
                 polling>>

\* const allGames = await this.gameRepository.findAll()
StatsFindAll ==
  /\ stats.pc = "findAll"
  /\ IF stats.fault.at = 3 THEN StatsCatch
     ELSE /\ stats' = [stats EXCEPT !.pc = IF Len(findAll) > 0 THEN "countEvents"
                                           ELSE "respond",
                                    !.allGames = findAll, !.idx = 1]
          /\ UNCHANGED http
  /\ UNCHANGED <<upstream, games, events, run, lastCycle, changes, failures, cycles,
                 polling>>

\* for (const game of allGames) totalEvents += await countEvents(game.gameId)
StatsCountEvents ==
  /\ stats.pc = "countEvents"
  /\ IF stats.fault.at = 4 THEN StatsCatch
     ELSE /\ stats' = [stats EXCEPT
                         !.totalEvents = @ + countEvents(events[stats.allGames[stats.idx].gameId]),
                         !.idx = @ + 1,
                         !.pc = IF stats.idx < Len(stats.allGames) THEN "countEvents"
                                ELSE "respond"]
          /\ UNCHANGED http
  /\ UNCHANGED <<upstream, games, events, run, lastCycle, changes, failures, cycles,
                 polling>>

\* res.json({success: true, data: statsDto, ...})
StatsRespond ==
  /\ stats.pc = "respond"
  /\ StatsAnswer(ApiResponse(200, TRUE, "",
       <<StatsResponseDto(stats.totalGames, stats.byStatus, stats.allGames,
                          stats.totalEvents)>>))
  /\ UNCHANGED <<upstream, games, events, run, lastCycle, changes, failures, cycles,
                 polling>>

\* Stats requests are served while the sync service runs its cycles.
NextStats ==
  \/ Step("timer")
  \/ GetStats
  \/ StatsCount
  \/ StatsCountByStatus
  \/ StatsFindAll
  \/ StatsCountEvents
  \/ StatsRespond

SpecStats == InitReadApi /\ [][NextStats]_vars

\* The sum of the counts of a byStatus / bySport object.
SumOf(counts) ==
  LET keys == DOMAIN counts
      RECURSIVE Add(_)
      Add(K) == IF K = {} THEN 0
                ELSE LET k == CHOOSE x \in K : TRUE IN counts[k] + Add(K \ {k})
  IN Add(keys)

\* C35: in every stats response, the byStatus counts add up to totalGames and
\* the bySport counts add up to totalGames, also when the sync service creates
\* or updates snapshots while the request is served.
C35_StatsAddUp ==
  (http.endpoint = "getStats" /\ http.response.success) =>
    LET data == http.response.data[1]
    IN /\ SumOf(data.byStatus) = data.totalGames
       /\ SumOf(data.bySport) = data.totalGames

----------------------------------------------------------------------------
\* C36: a getGameEvents request that meets no storage error, for a game id
\* that has at least one event in the log, is answered with the events of
\* that game, also when the game has no snapshot.
C36_EventsRetrievable ==
  [][(/\ http' # http
      /\ http'.endpoint = "getGameEvents"
      /\ http'.fault.at = 0
      /\ Len(getEventsByGameId(http'.param)) >= 1) =>
       /\ http'.response.status = 200
       /\ http'.response.data[1].totalEvents = Len(getEventsByGameId(http'.param))]_vars

----------------------------------------------------------------------------
\* Two invocations of syncAllSports over the three listed games, the APIs
\* serving the same games throughout.
NextTerminates == \E p \in Procs : Step(p)

\* Every adapter fetch and every storage operation an invocation of
\* syncAllSports awaits eventually returns or throws: the invocation's next
\* step is eventually taken.
SpecTerminates ==
  /\ Init
  /\ [][NextTerminates]_vars
  /\ \A p \in Procs : WF_vars(Step(p))

\* C37: every invocation of syncAllSports that was entered reaches "Sync cycle
\* completed", whatever fetches and storage operations fail on its way and
\* whatever the other invocation does.
C37_CycleTerminates ==
  \A p \in Procs : (run[p].pc # "idle") ~> (run[p].pc = "done")

\* An invocation has completed although a pass over a game failed in it on a
\* version conflict with the other invocation.
C37_Witness ==
  \E p \in Procs :
    /\ run[p].pc = "done"
    /\ run[p].failedAt # {}
    /\ run[p].error = "conflict"

----------------------------------------------------------------------------
(* The tennis adapter over every stand of a set *)

\* The games a player may hold in a set, tie-break and extended sets included.
SetGamesPlayed == 0..MaxSetGames

\* setScore of a TennisGame: the sets of the match so far.
SetScoresPlayed ==
  UNION {[1..n -> [p1 : SetGamesPlayed, p2 : SetGamesPlayed]] : n \in 0..MaxSets}

\* What the tennis API answers with: the one game T1, at any stand of its sets.
TennisResponses ==
  {[kind |-> "body",
    list |-> <<[gameId |-> "T1", player1 |-> "Player 1A", player2 |-> "Player 1B",
                setScore |-> s, status |-> "IN_PROGRESS", missing |-> {}]>>] :
     s \in SetScoresPlayed}

\* fetchGames: await axios.get(...). The tennis API serves T1; every other
\* answer is an empty list.
ReceiveTennis(p) ==
  /\ run[p].pc = "fetch"
  /\ \/ /\ changes' = changes
        /\ run' = [run EXCEPT ![p] = [@ EXCEPT !.pc = "convert",
                                               !.response[run[p].adapter] =
                                                 [kind |-> "body", list |-> <<>>]]]
     \/ /\ Sport(run[p]) = "TENNIS"
        /\ changes < MaxChanges
        /\ changes' = changes + 1
        /\ \E response \in TennisResponses :
             run' = [run EXCEPT ![p] = [@ EXCEPT !.pc = "convert",
                                                !.response[run[p].adapter] = response]]
  /\ UNCHANGED <<http, stats, polling, upstream, games, events, lastCycle, failures, cycles>>

\* One invocation at a time, storage working, the tennis match at any stand.
NextTennis ==
  \/ StartCycle("timer")
  \/ ReceiveTennis("timer")
  \/ Convert("timer")
  \/ FindById("timer")
  \/ GetCurrentVersion("timer")
  \/ SaveEvent("timer")
  \/ SaveGame("timer")
  \/ ProcessGameReturns("timer")
  \/ EndCycle("timer")

SpecTennis == InitAdapters /\ [][NextTennis]_vars

\* The index of the tennis adapter in the for loop of syncAllSports.
TennisAdapterIndex == CHOOSE a \in 1..Len(adapters) : adapters[a] = "TENNIS"

\* A set is decided: a player holds at least six games and leads by at least
\* two, or the set stands at 7-6 or 6-7.
SetDecided(set) ==
  \/ set.p1 >= 6 /\ set.p1 - set.p2 >= 2
  \/ set.p2 >= 6 /\ set.p2 - set.p1 >= 2
  \/ set.p1 = 7 /\ set.p2 = 6
  \/ set.p1 = 6 /\ set.p2 = 7

\* C38: for every setScore the tennis API serves, a set counts as complete
\* exactly when one player has at least 6 games and leads by at least 2 or the
\* set stands at 7-6 / 6-7 (never at 6-6, 6-5 / 5-6 or with both players below
\* 6); score1 / score2 of the converted game, and of the snapshot written from
\* it, are the numbers of complete sets in which player 1 / player 2 has more
\* games, so score1 + score2 never exceeds the number of sets in the payload.
C38_SetsWon ==
  LET r == Timer
      a == TennisAdapterIndex
      response == r.response[a]
  IN (response.kind = "body" /\ Len(response.list) = 1) =>
       LET s == response.list[1].setScore
           won1 == {i \in 1..Len(s) : SetDecided(s[i]) /\ s[i].p1 > s[i].p2}
           won2 == {i \in 1..Len(s) : SetDecided(s[i]) /\ s[i].p2 > s[i].p1}
       IN /\ \A i \in 1..Len(s) :
               /\ isSetComplete(s[i]) <=> SetDecided(s[i])
               /\ (s[i].p1 = 6 /\ s[i].p2 = 6) => ~isSetComplete(s[i])
               /\ ({s[i].p1, s[i].p2} = {5, 6}) => ~isSetComplete(s[i])
               /\ (s[i].p1 < 6 /\ s[i].p2 < 6) => ~isSetComplete(s[i])
          /\ r.outcome[a] # "none" =>
               /\ r.outcome[a] = "ok"
               /\ Len(r.got[a]) = 1
               /\ r.got[a][1].score1 = Cardinality(won1)
               /\ r.got[a][1].score2 = Cardinality(won2)
               /\ r.got[a][1].score1 + r.got[a][1].score2 <= Len(s)
          /\ games["T1"] # NoGame =>
               /\ games["T1"].score1 = Cardinality(won1)
               /\ games["T1"].score2 = Cardinality(won2)
               /\ games["T1"].score1 + games["T1"].score2 <= Len(s)

\* The tennis API served a first set at 7-6 and a second at 6-5: the snapshot
\* of the match stands at one set to nil.
C38_Witness ==
  LET response == Timer.response[TennisAdapterIndex]
  IN /\ response.kind = "body" /\ Len(response.list) = 1
     /\ response.list[1].setScore = <<[p1 |-> 7, p2 |-> 6], [p1 |-> 6, p2 |-> 5]>>
     /\ games["T1"] # NoGame
     /\ games["T1"].score1 = 1
     /\ games["T1"].score2 = 0

----------------------------------------------------------------------------
\* The record of an API's list carries a negative score.
NegativeScore(sport, raw) ==
  CASE sport = "SOCCER" -> raw.home < 0 \/ raw.away < 0
    [] sport = "HOCKEY" -> raw.team1 < 0 \/ raw.team2 < 0
    [] OTHER -> FALSE

\* C39: in every reachable state score1 and score2 of every snapshot and both
\* components of newScore of every SCORE_UPDATED event are non-negative, and a
\* list holding a record with a negative score is fetched as no game at all:
\* nothing of it reaches the snapshot store or the event log.
C39_ScoresNonNegative ==
  /\ \A id \in GameIds :
       /\ games[id] # NoGame => games[id].score1 >= 0 /\ games[id].score2 >= 0
       /\ \A i \in 1..Len(events[id]) :
            events[id][i].eventType = "SCORE_UPDATED" =>
              /\ events[id][i].newScore[1] >= 0
              /\ events[id][i].newScore[2] >= 0
  /\ \A p \in Procs : \A a \in 1..Len(adapters) :
       LET response == run[p].response[a]
       IN (/\ run[p].outcome[a] # "none"
           /\ \E i \in 1..Len(response.list) :
                NegativeScore(adapters[a], response.list[i])) =>
            /\ run[p].outcome[a] = "empty"
            /\ run[p].got[a] = <<>>

\* The soccer API served M2 at 0-0 followed by M1 with a negative home score:
\* the cycle has completed with no snapshot and no event, of M2 either.
C39_Witness ==
  LET response == Timer.response[1]
  IN /\ Timer.pc = "done"
     /\ response.kind = "body" /\ Len(response.list) = 2
     /\ response.list[1] = SecondMatch
     /\ response.list[2].home = -1
     /\ response.list[2].matchId = "M1"
     /\ response.list[2].homeTeam = "Team 1A" /\ response.list[2].awayTeam = "Team 1B"
     /\ response.list[2].missing = {}
     /\ Timer.outcome[1] = "empty"
     /\ \A id \in GameIds : games[id] = NoGame /\ events[id] = <<>>

====
